---- MODULE Spec2Model ----
EXTENDS Integers, Sequences, FiniteSets, Bags, TLC

(***************************************************************************)
(* KEML for VSCode: the document parser (tokenizer, attribute extractor,   *)
(* tree traversal), the workspace symbol table `docs` and the              *)
(* cross-document resolver that publishes diagnostics.                     *)
(*                                                                         *)
(* Strings are sequences of one-character strings; string indices are      *)
(* 0-based, as in the source.  Documents are single-line, so a Position is  *)
(* (line 0, character = offset) and is written as its offset.              *)
(***************************************************************************)

VARIABLES
  lastIndex,    \* INVALID_PATTERN.lastIndex: the /g pattern is a module-level object
  input,        \* the attribute value / scanner token text the next call is applied to
  call,         \* the last tokenizer / extractor / parser call and what it returned
  history,      \* text -> what the first parse of that text returned (or Null)
  docs,         \* the workspace table: insertion-ordered map url -> ParsedDocument object id
  heap,         \* object id -> ParsedDocument (objects are shared by reference)
  published,    \* the diagnostic collection: url -> list of diagnostics (or Null)
  pending,      \* handlers suspended on workspace.openTextDocument (a bag)
  actionUnusedSeverity,
  actionUndefinedSeverity,
  languageIds,
  exclude,
  include

vars == <<lastIndex, input, call, history, docs, heap, published, pending,
          actionUnusedSeverity, actionUndefinedSeverity, languageIds, exclude, include>>

\* -------------------------------------------------------------------------
\* bounds
\* -------------------------------------------------------------------------
MaxLen == 4
MaxPending == 2

\* -------------------------------------------------------------------------
\* JS string primitives
\* -------------------------------------------------------------------------
Min(a, b) == IF a < b THEN a ELSE b
Max(a, b) == IF a > b THEN a ELSE b
SetMin(S) == CHOOSE x \in S : \A y \in S : x <= y
SetMax(S) == CHOOSE x \in S : \A y \in S : x >= y

charAt(s, i) == s[i + 1]

\* String.prototype.slice(begin, end); `end` is a number, so -0 is 0
slice(s, begin, end) ==
  LET len == Len(s)
      b == IF begin < 0 THEN Max(len + begin, 0) ELSE Min(begin, len)
      e == IF end < 0 THEN Max(len + end, 0) ELSE Min(end, len)
  IN IF e <= b THEN <<>> ELSE [k \in 1..(e - b) |-> s[b + k]]

\* String.prototype.indexOf(ch, from)
indexOf(s, ch, from) ==
  LET hits == {i \in Max(from, 0)..(Len(s) - 1) : charAt(s, i) = ch}
  IN IF hits = {} THEN -1 ELSE SetMin(hits)

\* String.prototype.lastIndexOf(ch, from)
lastIndexOf(s, ch, from) ==
  LET hits == {i \in 0..Min(from, Len(s) - 1) : charAt(s, i) = ch}
  IN IF hits = {} THEN -1 ELSE SetMax(hits)

startsWith(s, p) == Len(s) >= Len(p) /\ slice(s, 0, Len(p)) = p

\* the characters \s matches among those the model uses
Whitespace == {" "}
Quotes == {"\"", "'"}

\* -------------------------------------------------------------------------
\* parseTokens.ts
\* -------------------------------------------------------------------------
\* the character class of INVALID_PATTERN
InvalidChars == {"(", ")", "[", "]", "<", ">", "{", "}"}

\* the indices INVALID_PATTERN matches at, scanning from index `from`
InvalidAt(s, from) == {i \in from..(Len(s) - 1) : charAt(s, i) \in InvalidChars}

\* INVALID_PATTERN.test(value) on the shared /g object: the search starts at
\* lastIndex, a hit leaves lastIndex after the match, a miss resets it to 0
INVALID_PATTERN_test(value, li) ==
  LET hits == InvalidAt(value, li)
  IN IF hits = {} THEN [found |-> FALSE, lastIndex |-> 0]
     ELSE [found |-> TRUE, lastIndex |-> SetMin(hits) + 1]

\* input.matchAll(INVALID_PATTERN): the matcher is a clone that starts at the
\* pattern's current lastIndex; the pattern itself is left untouched
matchAll(s, li) == InvalidAt(s, li)

RECURSIVE parseTokensLoop(_, _, _, _, _, _)
parseTokensLoop(s, i, characterDelta, leftBoundary, rightBoundary, result) ==
  IF i >= Len(s)
  THEN IF characterDelta # -1
       THEN Append(result, [token |-> slice(s, characterDelta, i),
                            characterDelta |-> characterDelta])
       ELSE result
  ELSE IF i > leftBoundary /\ i < rightBoundary
       THEN parseTokensLoop(s, i + 1, -1, leftBoundary, rightBoundary, result)
       ELSE IF charAt(s, i) = " "
            THEN IF characterDelta # -1
                 THEN parseTokensLoop(s, i + 1, -1, leftBoundary, rightBoundary,
                        Append(result, [token |-> slice(s, characterDelta, i),
                                        characterDelta |-> characterDelta]))
                 ELSE parseTokensLoop(s, i + 1, -1, leftBoundary, rightBoundary, result)
            ELSE parseTokensLoop(s, i + 1,
                   IF characterDelta = -1 THEN i ELSE characterDelta,
                   leftBoundary, rightBoundary, result)

\* variant: no protected zone is ever opened
leftBoundaryOf_none(s, li) == Len(s)

leftBoundaryOf(s, li) ==
  LET matches == matchAll(s, li)
  IN IF matches = {} THEN Len(s) ELSE lastIndexOf(s, " ", SetMin(matches))

rightBoundaryOf(s, li) ==
  LET matches == matchAll(s, li)
      r == indexOf(s, " ", SetMax(matches))
  IN IF matches = {} THEN -1 ELSE IF r = -1 THEN Len(s) ELSE r

\* variant: the scan starts at the second character
parseTokens_fromOne(s, li) ==
  parseTokensLoop(s, 1, -1, leftBoundaryOf(s, li), rightBoundaryOf(s, li), <<>>)

parseTokens(s, li) ==
  parseTokensLoop(s, 0, -1, leftBoundaryOf(s, li), rightBoundaryOf(s, li), <<>>)

\* -------------------------------------------------------------------------
\* the classifiers of attribute names
\* -------------------------------------------------------------------------
isEventDefinition(name) ==
  startsWith(name, <<"o","n",":">>) \/ startsWith(name, <<"x","-","o","n",":">>)

isEventFilter(name) ==
  startsWith(name, <<"e","v","e","n","t",":">>)
    \/ startsWith(name, <<"x","-","e","v","e","n","t",":">>)

isEventReference(name) ==
  name \in { <<"o","n">>, <<"x","-","o","n">>,
             <<"r","e","s","e","t">>, <<"x","-","r","e","s","e","t">> }

\* variant: the colon is not asked for
isStateDefinition_noColon(name) ==
  startsWith(name, <<"i","f">>) \/ startsWith(name, <<"x","-","i","f">>)

isStateDefinition(name) ==
  startsWith(name, <<"i","f",":">>) \/ startsWith(name, <<"x","-","i","f",":">>)

isStateReference(name) == name \in { <<"i","f">>, <<"x","-","i","f">> }

isResultDefinition(name) ==
  name \in { <<"r","e","s","u","l","t">>, <<"x","-","r","e","s","u","l","t">>,
             <<"e","r","r","o","r">>, <<"x","-","e","r","r","o","r">> }

isResultReference(name) ==
  name \in { <<"r","e","n","d","e","r">>, <<"x","-","r","e","n","d","e","r">> }

isPosition(name) ==
  name \in { <<"p","o","s","i","t","i","o","n">>,
             <<"x","-","p","o","s","i","t","i","o","n">> }

onDependentAttributes ==
  { <<"d","e","b","o","u","n","c","e">>,
    <<"t","h","r","o","t","t","l","e">>,
    <<"c","r","e","d","e","n","t","i","a","l","s">>,
    <<"r","e","s","u","l","t">>,
    <<"e","r","r","o","r">>,
    <<"r","e","d","i","r","e","c","t">>,
    <<"o","n","c","e">>,
    <<"i","f",":","l","o","a","d","i","n","g">>,
    <<"i","f",":","e","r","r","o","r">>,
    <<"g","e","t">>,
    <<"p","o","s","t">>,
    <<"p","u","t">>,
    <<"d","e","l","e","t","e">> }

isOnDependent(name) ==
  \/ startsWith(name, <<"h","-">>)
  \/ name \in onDependentAttributes
  \/ (startsWith(name, <<"x","-">>) /\ slice(name, 2, Len(name)) \in onDependentAttributes)

\* onDependentTags.get(name): the tags the attribute is native to; hasTags says
\* whether the map has the key
onDependentTagsKeys ==
  { <<"h","r","e","f">>, <<"a","c","t","i","o","n">>, <<"s","r","c">>,
    <<"m","e","t","h","o","d">>, <<"n","a","m","e">>, <<"v","a","l","u","e">> }

onDependentTags(name) ==
  IF name = <<"h","r","e","f">> THEN
    { <<"b","a","s","e">>, <<"l","i","n","k">>, <<"a">> }
  ELSE IF name = <<"a","c","t","i","o","n">> THEN
    { <<"f","o","r","m">> }
  ELSE IF name = <<"s","r","c">> THEN
    { <<"i","m","g">>, <<"i","f","r","a","m","e">>, <<"e","m","b","e","d">>,
      <<"v","i","d","e","o">>, <<"a","u","d","i","o">>, <<"s","o","u","r","c","e">>,
      <<"t","r","a","c","k">>, <<"i","n","p","u","t">>, <<"s","c","r","i","p","t">> }
  ELSE IF name = <<"m","e","t","h","o","d">> THEN
    { <<"f","o","r","m">> }
  ELSE IF name = <<"n","a","m","e">> THEN
    { <<"m","e","t","a">>, <<"i","f","r","a","m","e">>, <<"o","b","j","e","c","t">>,
      <<"p","a","r","a","m">>, <<"m","a","p">>, <<"f","o","r","m">>,
      <<"i","n","p","u","t">>, <<"b","u","t","t","o","n">>, <<"s","e","l","e","c","t">>,
      <<"t","e","x","t","a","r","e","a">>, <<"o","u","t","p","u","t">>,
      <<"f","i","e","l","d","s","e","t">>, <<"s","l","o","t">> }
  ELSE IF name = <<"v","a","l","u","e">> THEN
    { <<"l","i">>, <<"p","a","r","a","m">>, <<"i","n","p","u","t">>,
      <<"b","u","t","t","o","n">>, <<"o","p","t","i","o","n">>,
      <<"p","r","o","g","r","e","s","s">>, <<"m","e","t","e","r">>, <<"d","a","t","a">> }
  ELSE {}

isTagOnDependent(tag, name) ==
  IF isOnDependent(name) THEN TRUE
  ELSE IF name \in onDependentTagsKeys THEN tag \notin onDependentTags(name)
  ELSE IF startsWith(name, <<"x","-">>) /\ slice(name, 2, Len(name)) \in onDependentTagsKeys
       THEN tag \notin onDependentTags(slice(name, 2, Len(name)))
  ELSE FALSE

validPosition ==
  { <<"r","e","p","l","a","c","e","C","h","i","l","d","r","e","n">>,
    <<"r","e","p","l","a","c","e","W","i","t","h">>,
    <<"b","e","f","o","r","e">>,
    <<"a","f","t","e","r">>,
    <<"p","r","e","p","e","n","d">>,
    <<"a","p","p","e","n","d">> }

\* -------------------------------------------------------------------------
\* parseNodeAttrs.ts
\* -------------------------------------------------------------------------
\* HEAD_PATTERN = /^(?:\s*["'])?/ : the length of its match
HEAD_PATTERN(text) ==
  LET ws == {k \in 0..Len(text) : \A j \in 0..(k - 1) : charAt(text, j) \in Whitespace}
      k == SetMax(ws)
  IN IF k < Len(text) /\ charAt(text, k) \in Quotes THEN k + 1 ELSE 0

\* TAIL_PATTERN = /(?:["']\s*)?$/ : the length of its (leftmost) match
TAIL_PATTERN(text) ==
  LET ps == {p \in 0..(Len(text) - 1) :
               /\ charAt(text, p) \in Quotes
               /\ \A j \in (p + 1)..(Len(text) - 1) : charAt(text, j) \in Whitespace}
  IN IF ps = {} THEN 0 ELSE Len(text) - SetMin(ps)

\* tokenText.slice(head, tail) with tail = TAIL_PATTERN length * -1
attrValue(tokenText) ==
  slice(tokenText, HEAD_PATTERN(tokenText), 0 - TAIL_PATTERN(tokenText))

\* textDoc.positionAt + convertPosition + new Range, on a single-line document
Range(startOffset, endOffset) == [start |-> startOffset, end |-> endOffset]

\* the while loop over the scanner's tokens; `toks` is what scanner.scan()
\* returns from node.start on, each [type, text, offset]
RECURSIVE parseNodeAttrsLoop(_, _, _, _, _, _, _)
parseNodeAttrsLoop(toks, k, tokenEnd, name, nameOffset, startTagEnd, out) ==
  IF ~(tokenEnd < startTagEnd) \/ k > Len(toks)
  THEN out
  ELSE
    LET tok == toks[k]
        tEnd == tok.offset + Len(tok.text)
    IN IF tok.type = "AttributeName"
       THEN parseNodeAttrsLoop(toks, k + 1, tEnd, <<tok.text>>, tok.offset,
                               startTagEnd, out)
       ELSE IF name # <<>> /\ tok.type = "AttributeValue"
       THEN
         LET head == HEAD_PATTERN(tok.text)
             tail == 0 - TAIL_PATTERN(tok.text)
             offset == tok.offset + head
             end == tEnd + tail
         IN parseNodeAttrsLoop(toks, k + 1, tEnd, <<>>, nameOffset, startTagEnd,
              Append(out, [name |-> name[1],
                           value |-> attrValue(tok.text),
                           offset |-> offset,
                           end |-> end,
                           range |-> Range(offset, end),
                           fullRange |-> Range(nameOffset, tEnd)]))
       ELSE parseNodeAttrsLoop(toks, k + 1, tEnd, name, nameOffset, startTagEnd, out)

\* `name` is <<>> while undefined and <<text>> once an attribute name was scanned
parseNodeAttrs(node) ==
  IF node.startTagEnd = 0 \/ node.tag = <<>>
  THEN <<>>
  ELSE parseNodeAttrsLoop(node.tokens, 1, -1, <<>>, -1, node.startTagEnd, <<>>)

\* -------------------------------------------------------------------------
\* addRange.ts, addDefinitionRanges.ts, addDependsDiagnostic.ts
\* -------------------------------------------------------------------------
\* a Map<string, Range[]> is an insertion-ordered list of [key, ranges]
mapHas(store, key) == \E i \in 1..Len(store) : store[i].key = key
mapGet(store, key) == store[CHOOSE i \in 1..Len(store) : store[i].key = key].ranges
mapKeys(store) == [i \in 1..Len(store) |-> store[i].key]

\* variant: the key is not looked at
addRange_anyKey(store, key, range) ==
  IF mapHas(store, key)
  THEN [i \in 1..Len(store) |->
          IF store[i].key = key
          THEN [key |-> key, ranges |-> Append(store[i].ranges, range)]
          ELSE store[i]]
  ELSE Append(store, [key |-> key, ranges |-> <<range>>])

addRange(store, key, range) ==
  IF key = <<>> THEN store
  ELSE IF mapHas(store, key)
       THEN [i \in 1..Len(store) |->
               IF store[i].key = key
               THEN [key |-> key, ranges |-> Append(store[i].ranges, range)]
               ELSE store[i]]
       ELSE Append(store, [key |-> key, ranges |-> <<range>>])

RECURSIVE addTokenRanges(_, _, _, _)
addTokenRanges(store, tokens, k, range) ==
  IF k > Len(tokens) THEN store
  ELSE addTokenRanges(
         addRange(store, tokens[k].token,
                  Range(range.start + tokens[k].characterDelta,
                        range.start + tokens[k].characterDelta + Len(tokens[k].token))),
         tokens, k + 1, range)

\* `li` is INVALID_PATTERN.lastIndex at the time of the call
addDefinitionRanges(store, value, range, li) ==
  addTokenRanges(store, parseTokens(value, li), 1, range)

\* new Diagnostic(range, message, severity) with source "KEML" and optional tags;
\* a message is the template and the values it is filled with
Message(tpl, article, kind, x, y) ==
  [tpl |-> tpl, article |-> article, kind |-> kind, x |-> x, y |-> y]

Diagnostic(range, message, severity, tags) ==
  [range |-> range, message |-> message, severity |-> severity,
   source |-> "KEML", tags |-> tags]

\* variant: only the companion itself counts, not its x- form
addDependsDiagnostic_noXForm(diagnostics, attributes, range, name, depends, article) ==
  IF depends \in attributes
  THEN diagnostics
  ELSE Append(diagnostics,
              Diagnostic(range, Message("DEP_TPL", article, "", name, depends),
                         "Warning", {"Unnecessary"}))

addDependsDiagnostic(diagnostics, attributes, range, name, depends, article) ==
  IF depends \in attributes \/ (<<"x","-">> \o depends) \in attributes
  THEN diagnostics
  ELSE Append(diagnostics,
              Diagnostic(range, Message("DEP_TPL", article, "", name, depends),
                         "Warning", {"Unnecessary"}))

\* -------------------------------------------------------------------------
\* parseHTMLDocument.ts
\* -------------------------------------------------------------------------
\* END_SPACE_PATTERN = /(?:^\s|\s$)/
END_SPACE_PATTERN(value) ==
  Len(value) > 0 /\ (value[1] \in Whitespace \/ value[Len(value)] \in Whitespace)

\* the accumulators of one parse, the shared pattern's lastIndex, and (for the
\* properties below) the attributes in the order the loop body ran on them,
\* each with the node it belongs to and the lastIndex it found
emptyParse(li) ==
  [diagnostics |-> <<>>,
   event_definitions |-> <<>>, event_references |-> <<>>,
   state_definitions |-> <<>>, state_references |-> <<>>,
   result_definitions |-> <<>>, result_references |-> <<>>,
   lastIndex |-> li,
   visited |-> <<>>]

\* the if / else-if chain that files the attribute in one of the six tables
classifyAttr(st, a) ==
  IF isEventDefinition(a.name)
  THEN [st EXCEPT !.event_definitions = addDefinitionRanges(@, a.value, a.range, st.lastIndex)]
  ELSE IF isEventReference(a.name)
  THEN [st EXCEPT !.event_references = addRange(@, a.value, a.range)]
  ELSE IF isStateDefinition(a.name)
  THEN [st EXCEPT !.state_definitions = addDefinitionRanges(@, a.value, a.range, st.lastIndex)]
  ELSE IF isStateReference(a.name)
  THEN [st EXCEPT !.state_references = addRange(@, a.value, a.range)]
  ELSE IF isResultDefinition(a.name)
  THEN [st EXCEPT !.result_definitions = addDefinitionRanges(@, a.value, a.range, st.lastIndex)]
  ELSE IF isResultReference(a.name)
  THEN [st EXCEPT !.result_references = addRange(@, a.value, a.range)]
  ELSE st

\* "No action specified." / "Action subscribers are only allowed ..."
referenceDiagnostic(st, a) ==
  IF isEventReference(a.name) \/ isStateReference(a.name) \/ isResultReference(a.name)
  THEN IF a.value = <<>>
       THEN [st EXCEPT !.diagnostics = Append(@,
               Diagnostic(a.fullRange, Message("NO_ACTION", "", "", <<>>, <<>>),
                          "Warning", {"Unnecessary"}))]
       ELSE IF END_SPACE_PATTERN(a.value)
       THEN [st EXCEPT !.diagnostics = Append(@,
               Diagnostic(a.fullRange, Message("VERBATIM", "", "", <<>>, <<>>),
                          "Error", {}))]
       ELSE st
  ELSE st

eventFilterDiagnostic(st, attributes, a) ==
  IF isEventFilter(a.name)
  THEN [st EXCEPT !.diagnostics = addDependsDiagnostic(@, attributes, a.fullRange, a.name,
          <<"o","n">> \o slice(a.name, indexOf(a.name, ":", 0), Len(a.name)),
          "a corresponding")]
  ELSE st

onDependentDiagnostic(st, tag, attributes, a) ==
  IF isTagOnDependent(tag, a.name)
  THEN [st EXCEPT !.diagnostics =
          addDependsDiagnostic(@, attributes, a.fullRange, a.name, <<"o","n">>, "an")]
  ELSE st

\* the render dependency, then the validity of the position value; the test
\* on the shared /g pattern runs only for a value outside validPosition
positionDiagnostic(st, attributes, a) ==
  IF isPosition(a.name)
  THEN LET s1 == [st EXCEPT !.diagnostics =
                    addDependsDiagnostic(@, attributes, a.fullRange, a.name,
                                         <<"r","e","n","d","e","r">>, "a")]
       IN IF a.value \in validPosition THEN s1
          ELSE LET t == INVALID_PATTERN_test(a.value, s1.lastIndex)
               IN IF t.found
                  THEN [s1 EXCEPT !.lastIndex = t.lastIndex]
                  ELSE [s1 EXCEPT !.lastIndex = t.lastIndex,
                                  !.diagnostics = Append(@,
                                     Diagnostic(a.fullRange,
                                                Message("INVALID_POSITION", "", "", <<>>, <<>>),
                                                "Error", {}))]
  ELSE st

xPrefixDiagnostic(st, attributes, a) ==
  IF startsWith(a.name, <<"x","-">>)
  THEN [st EXCEPT !.diagnostics =
          addDependsDiagnostic(@, attributes, a.fullRange, a.name, <<"i","f">>, "an")]
  ELSE st

\* the body of the loop over parseNodeAttrs(textDoc, node)
parseAttr(st, node, a) ==
  LET s0 == [st EXCEPT !.visited =
               Append(@, [node |-> node.start, attr |-> a, lastIndex |-> st.lastIndex])]
  IN xPrefixDiagnostic(
       positionDiagnostic(
         onDependentDiagnostic(
           eventFilterDiagnostic(
             referenceDiagnostic(classifyAttr(s0, a), a),
             node.attributes, a),
           node.tag, node.attributes, a),
         node.attributes, a),
       node.attributes, a)

RECURSIVE parseAttrs(_, _, _, _)
parseAttrs(st, node, attrs, k) ==
  IF k > Len(attrs) THEN st
  ELSE parseAttrs(parseAttr(st, node, attrs[k]), node, attrs, k + 1)

\* while ((nodes = stack.pop())) for (node of nodes) { stack.push(node.children); ... }
RECURSIVE traverseStack(_, _)
RECURSIVE traverseNodes(_, _, _, _)
\* variant: the children of a node are not pushed
RECURSIVE traverseNodes_noChildren(_, _, _, _)
traverseNodes_noChildren(nodes, k, stack, st) ==
  IF k > Len(nodes) THEN traverseStack(stack, st)
  ELSE traverseNodes_noChildren(nodes, k + 1, stack,
                                parseAttrs(st, nodes[k], parseNodeAttrs(nodes[k]), 1))

traverseNodes(nodes, k, stack, st) ==
  IF k > Len(nodes) THEN traverseStack(stack, st)
  ELSE traverseNodes(nodes, k + 1, Append(stack, nodes[k].children),
                     parseAttrs(st, nodes[k], parseNodeAttrs(nodes[k]), 1))

traverseStack(stack, st) ==
  IF stack = <<>> THEN st
  ELSE traverseNodes(stack[Len(stack)], 1, SubSeq(stack, 1, Len(stack) - 1), st)

\* parseHTMLDocument(doc, textDoc) given htmlDoc.roots; the result carries the
\* tables, the local diagnostics and the lastIndex the parse leaves behind
parseRoots(roots, li) == traverseStack(<<roots>>, emptyParse(li))

\* -------------------------------------------------------------------------
\* the HTML language service: element tree and scanner tokens of a text
\* -------------------------------------------------------------------------
\* A text is written as its elements: [tag, attrs, children], an attribute as
\* [name, raw] where raw is the value as written, quotes included (<<>>: the
\* attribute has no "=value").  It is laid out as
\*   <tag name=raw name=raw>children</tag>
\* and the service returns, for every element, the Node (tag, start,
\* startTagEnd, attributes, children) and the tokens its scanner yields from
\* node.start up to the end of the start tag.
Elem(tag, attrs, children) == [tag |-> tag, attrs |-> attrs, children |-> children]
Attr(name, raw) == [name |-> name, raw |-> raw]
Token(type, text, offset) == [type |-> type, text |-> text, offset |-> offset]
Q(s) == <<"\"">> \o s \o <<"\"">>

RECURSIVE scanAttrs(_, _, _, _)
scanAttrs(attrs, k, off, toks) ==
  IF k > Len(attrs) THEN [tokens |-> toks, end |-> off]
  ELSE LET a == attrs[k]
           nameOffset == off + 1
           nameEnd == nameOffset + Len(a.name)
           t1 == toks \o << Token("Whitespace", <<" ">>, off),
                            Token("AttributeName", a.name, nameOffset) >>
       IN IF a.raw = <<>>
          THEN scanAttrs(attrs, k + 1, nameEnd, t1)
          ELSE scanAttrs(attrs, k + 1, nameEnd + 1 + Len(a.raw),
                         t1 \o << Token("DelimiterAssign", <<"=">>, nameEnd),
                                  Token("AttributeValue", a.raw, nameEnd + 1) >>)

RECURSIVE parseElems(_, _, _, _)
parseElems(elems, k, off, out) ==
  IF k > Len(elems) THEN [nodes |-> out, end |-> off]
  ELSE LET e == elems[k]
           sc == scanAttrs(e.attrs, 1, off + 1 + Len(e.tag),
                           << Token("StartTagOpen", <<"<">>, off),
                              Token("StartTag", e.tag, off + 1) >>)
           startTagEnd == sc.end + 1
           kids == parseElems(e.children, 1, startTagEnd, <<>>)
           node == [tag |-> e.tag,
                    start |-> off,
                    startTagEnd |-> startTagEnd,
                    attributes |-> {e.attrs[i].name : i \in 1..Len(e.attrs)},
                    tokens |-> Append(sc.tokens, Token("StartTagClose", <<">">>, sc.end)),
                    children |-> kids.nodes]
       IN parseElems(elems, k + 1, kids.end + Len(e.tag) + 3, Append(out, node))

\* service.parseHTMLDocument(textDoc).roots
htmlRoots(text) == parseElems(text, 1, 0, <<>>).nodes

\* -------------------------------------------------------------------------
\* the texts documents are given
\* -------------------------------------------------------------------------
t_button == <<"b","u","t","t","o","n">>
t_div == <<"d","i","v">>
t_span == <<"s","p","a","n">>
t_p == <<"p">>
n_on_click == <<"o","n",":","c","l","i","c","k">>
n_on == <<"o","n">>
n_render == <<"r","e","n","d","e","r">>
n_result == <<"r","e","s","u","l","t">>
n_position == <<"p","o","s","i","t","i","o","n">>
v_save == <<"s","a","v","e">>
v_stats == <<"s","t","a","t","s">>
v_save_load == <<"s","a","v","e"," ","l","o","a","d">>

\* <button on:click="save"></button><div on="save"></div>
TextA == << Elem(t_button, << Attr(n_on_click, Q(v_save)) >>, <<>>),
            Elem(t_div, << Attr(n_on, Q(v_save)) >>, <<>>) >>
\* <div render="stats"></div>
TextB == << Elem(t_div, << Attr(n_render, Q(v_stats)) >>, <<>>) >>
\* <button on:click="save" result="stats"></button>
TextDefs == << Elem(t_button, << Attr(n_on_click, Q(v_save)),
                                 Attr(n_result, Q(v_stats)) >>, <<>>) >>
\* <div on:click="( b" position="("></div>
TextPattern == << Elem(t_div, << Attr(n_on_click, Q(<<"(", " ", "b">>)),
                                 Attr(n_position, Q(<<"(">>)) >>, <<>>) >>
\* <div on:click="save load" on="a b"></div>
TextMulti == << Elem(t_div, << Attr(n_on_click, Q(v_save_load)),
                               Attr(n_on, Q(<<"a", " ", "b">>)) >>, <<>>) >>
\* <div><p on:click="a"></p></div><span on:click="a" on=save></span>
TextTree == << Elem(t_div, <<>>, << Elem(t_p, << Attr(n_on_click, Q(<<"a">>)) >>, <<>>) >>),
               Elem(t_span, << Attr(n_on_click, Q(<<"a">>)), Attr(n_on, v_save) >>, <<>>) >>

\* <button on:click="stats" result="stats"></button><div on="stats" position="x"></div>
TextKinds == << Elem(t_button, << Attr(n_on_click, Q(v_stats)),
                                  Attr(n_result, Q(v_stats)) >>, <<>>),
                Elem(t_div, << Attr(n_on, Q(v_stats)),
                               Attr(n_position, Q(<<"x">>)) >>, <<>>) >>

\* <div on="" on:click=" " result="" render="stats"></div>
TextEmpty == << Elem(t_div, << Attr(n_on, Q(<<>>)),
                               Attr(n_on_click, Q(<<" ">>)),
                               Attr(n_result, Q(<<>>)),
                               Attr(n_render, Q(v_stats)) >>, <<>>) >>

Texts == << TextA, TextB, TextDefs, TextPattern, TextMulti, TextTree, TextKinds, TextEmpty >>
TextIds == 1..Len(Texts)
\* the texts the workspace's documents take
WsTextIds == {2, 7}
\* the texts of the workspace under configuration changes
ConfTextIds == {2, 7, 8}

\* the values INVALID_PATTERN.lastIndex takes: at most the longest value + 1
LastIndexes == 0..3

\* parseHTMLDocument(doc, textDoc) for each text and each state of the pattern
parseText(t, li) == parseRoots(htmlRoots(Texts[t]), li)
parsed == [t \in TextIds, li \in LastIndexes |-> parseText(t, li)]

\* -------------------------------------------------------------------------
\* state shared by the specifications
\* -------------------------------------------------------------------------
Urls == {"a.html", "b.html", "c.txt"}

NoCall == [fn |-> "none"]
NoHistory == [t \in TextIds |-> [seen |-> FALSE, result |-> emptyParse(0)]]
NoPublished == [u \in Urls |-> [present |-> FALSE, items |-> <<>>]]

\* nothing tracked, nothing in flight, a fresh pattern
Idle ==
  /\ lastIndex = 0
  /\ input = <<>>
  /\ call = NoCall
  /\ history = NoHistory
  /\ docs = <<>>
  /\ heap = <<>>
  /\ published = NoPublished
  /\ pending = EmptyBag
  /\ actionUnusedSeverity = "Error"
  /\ actionUndefinedSeverity = "Error"
  /\ languageIds = {"html"}
  /\ exclude = <<>>
  /\ include = <<>>

configVars == <<actionUnusedSeverity, actionUndefinedSeverity, languageIds, exclude, include>>
workspaceVars == <<docs, heap, published, pending, configVars>>

\* -------------------------------------------------------------------------
\* the tokenizer and the extractor applied to attribute values
\* -------------------------------------------------------------------------
TokChars == {"a", " ", "(", ")"}
AttrChars == {"a", " ", "\"", "'"}
TokExamples ==
  { <<"a"," ","b"," ","c">>,
    <<"a"," ","(","b"," ","c",")"," ","d">>,
    <<"f","o","o"," ","b","a","r","(","b","a","z",")"," ","q","u","x">> }

\* the environment writes the next character of an attribute value
TypeChar(c) ==
  /\ Len(input) < MaxLen
  /\ input' = Append(input, c)
  /\ call' = NoCall
  /\ UNCHANGED <<lastIndex, history, workspaceVars>>

\* ... or starts the next value
NewValue ==
  /\ input # <<>>
  /\ input' = <<>>
  /\ call' = NoCall
  /\ UNCHANGED <<lastIndex, history, workspaceVars>>

UseExample(v) ==
  /\ input' = v
  /\ call' = NoCall
  /\ UNCHANGED <<lastIndex, history, workspaceVars>>

\* parseHTMLDocument.ts:160 on a position attribute whose value is `input`
PositionCheck ==
  /\ input \notin validPosition
  /\ lastIndex' = INVALID_PATTERN_test(input, lastIndex).lastIndex
  /\ call' = NoCall
  /\ UNCHANGED <<input, history, workspaceVars>>

\* parseTokens(input)
Tokenize ==
  /\ call' = [fn |-> "parseTokens", arg |-> input, lastIndex |-> lastIndex,
              result |-> parseTokens(input, lastIndex)]
  /\ UNCHANGED <<lastIndex, input, history, workspaceVars>>

NextTok ==
  \/ \E c \in TokChars : TypeChar(c)
  \/ NewValue
  \/ \E v \in TokExamples : UseExample(v)
  \/ PositionCheck
  \/ Tokenize

SpecTok == Idle /\ [][NextTok]_vars

\* the value tokens the scanner hands over inside a start tag that is closed:
\* an unquoted run, or a quoted string with its closing quote
IsScannerValue(s) ==
  /\ Len(s) > 0
  /\ \/ \A i \in 1..Len(s) : s[i] \notin (Whitespace \cup Quotes \cup {"=", "<", ">"})
     \/ /\ Len(s) >= 2
        /\ s[1] \in Quotes
        /\ s[Len(s)] = s[1]
        /\ \A i \in 2..(Len(s) - 1) : s[i] # s[1]

\* parseNodeAttrs on <div on=input>
ExtractAttr ==
  /\ IsScannerValue(input)
  /\ call' = [fn |-> "parseNodeAttrs", arg |-> input,
              result |-> parseNodeAttrs(
                           htmlRoots(<< Elem(t_div, << Attr(n_on, input) >>, <<>>) >>)[1])]
  /\ UNCHANGED <<lastIndex, input, history, workspaceVars>>

NextAttr ==
  \/ \E c \in AttrChars : TypeChar(c)
  \/ NewValue
  \/ ExtractAttr

SpecAttr == Idle /\ [][NextAttr]_vars

\* -------------------------------------------------------------------------
\* the parser applied to texts, one parse after another
\* -------------------------------------------------------------------------
ParseDocument(t) ==
  LET r == parsed[t, lastIndex]
  IN /\ call' = [fn |-> "parseHTMLDocument", arg |-> t, lastIndex |-> lastIndex,
                 result |-> r]
     /\ lastIndex' = r.lastIndex
     /\ history' = IF history[t].seen THEN history
                   ELSE [history EXCEPT ![t] = [seen |-> TRUE, result |-> r]]
     /\ UNCHANGED <<input, workspaceVars>>

NextParse == \E t \in TextIds : ParseDocument(t)

SpecParse == Idle /\ [][NextParse]_vars

\* -------------------------------------------------------------------------
\* properties of the tokenizer (SpecTok)
\* -------------------------------------------------------------------------
\* [b, e) is a maximal run of non-space characters of s
IsRun(s, b, e) ==
  /\ 0 <= b /\ b < e /\ e <= Len(s)
  /\ \A i \in b..(e - 1) : charAt(s, i) # " "
  /\ (b = 0 \/ charAt(s, b - 1) = " ")
  /\ (e = Len(s) \/ charAt(s, e) = " ")

Runs(s) == {be \in (0..Len(s)) \X (0..Len(s)) : IsRun(s, be[1], be[2])}

RunToken(s, be) == [token |-> slice(s, be[1], be[2]), characterDelta |-> be[1]]

TokenSet(result) == {result[i] : i \in 1..Len(result)}

InInputOrder(result) ==
  \A i \in 1..(Len(result) - 1) :
     result[i].characterDelta + Len(result[i].token) < result[i + 1].characterDelta

\* the protected zone, from the bracket characters the pattern finds
ZoneLeft(s, li) ==
  SetMax({-1} \cup {i \in 0..SetMin(InvalidAt(s, li)) : charAt(s, i) = " "})
ZoneRight(s, li) ==
  SetMin({Len(s)} \cup {i \in SetMax(InvalidAt(s, li))..(Len(s) - 1) : charAt(s, i) = " "})

\* C7: for an input with none of the characters ()[]<>{} parseTokens returns
\* exactly the maximal runs of non-space characters, in input order, each with
\* the index of its first character (no token for "" or an all-space input).
C7_PlainInputSplitsOnSpaces ==
  (call.fn = "parseTokens" /\ InvalidAt(call.arg, 0) = {}) =>
     /\ TokenSet(call.result) = {RunToken(call.arg, be) : be \in Runs(call.arg)}
     /\ InInputOrder(call.result)

C7_Witness ==
  /\ call.fn = "parseTokens"
  /\ call.arg = <<"a"," ","b"," ","c">>
  /\ call.result = << [token |-> <<"a">>, characterDelta |-> 0],
                      [token |-> <<"b">>, characterDelta |-> 2],
                      [token |-> <<"c">>, characterDelta |-> 4] >>

StripQuotes(text) ==
  LET h == IF Len(text) > 0 /\ text[1] \in Quotes THEN 1 ELSE 0
      t == IF Len(text) > h /\ text[Len(text)] \in Quotes THEN 1 ELSE 0
  IN SubSeq(text, 1 + h, Len(text) - t)

\* C10: the extractor's value is the token text with a leading quote removed
\* if present and a trailing quote removed if present; a token with no
\* trailing quote keeps all of its remaining characters.
C10_ValueIsTokenWithoutQuotes ==
  call.fn = "parseNodeAttrs" =>
     /\ Len(call.result) = 1
     /\ call.result[1].value = StripQuotes(call.arg)

\* -------------------------------------------------------------------------
\* properties of the parser (SpecParse)
\* -------------------------------------------------------------------------
Kinds == {"event", "state", "result"}

isDefinition(kind, name) ==
  CASE kind = "event" -> isEventDefinition(name)
    [] kind = "state" -> isStateDefinition(name)
    [] kind = "result" -> isResultDefinition(name)

isReference(kind, name) ==
  CASE kind = "event" -> isEventReference(name)
    [] kind = "state" -> isStateReference(name)
    [] kind = "result" -> isResultReference(name)

definitionsOf(kind, cur) ==
  CASE kind = "event" -> cur.event_definitions
    [] kind = "state" -> cur.state_definitions
    [] kind = "result" -> cur.result_definitions

referencesOf(kind, cur) ==
  CASE kind = "event" -> cur.event_references
    [] kind = "state" -> cur.state_references
    [] kind = "result" -> cur.result_references

SixTables(cur) ==
  << cur.event_definitions, cur.event_references,
     cur.state_definitions, cur.state_references,
     cur.result_definitions, cur.result_references >>

\* C5: parsing the same text twice, at any point of any sequence of parses,
\* yields identical six symbol tables and identical local diagnostics.
C5_ParseIsDeterministic ==
  call.fn = "parseHTMLDocument" =>
     /\ SixTables(call.result) = SixTables(history[call.arg].result)
     /\ call.result.diagnostics = history[call.arg].result.diagnostics

\* the elements of a text and the nodes the service makes of them, both in
\* document order
RECURSIVE FlatElems(_)
FlatElems(elems) ==
  IF elems = <<>> THEN <<>>
  ELSE <<elems[1]>> \o FlatElems(elems[1].children) \o FlatElems(Tail(elems))

RECURSIVE FlatNodes(_)
FlatNodes(nodes) ==
  IF nodes = <<>> THEN <<>>
  ELSE <<nodes[1]>> \o FlatNodes(nodes[1].children) \o FlatNodes(Tail(nodes))

\* the text a call parsed
CallText(c) ==
  IF c.fn = "parseElement" THEN << Elem(c.tag, c.arg, <<>>) >> ELSE Texts[c.arg]

\* attribute i of element e as the author wrote it, located by the node's tokens:
\* its value is what stands after "=" without its quotes (empty if there is no
\* "=value"), its value range is where that text stands, its full range runs
\* from the name to the end of the value
WrittenAttr(e, node, i) ==
  LET a == e.attrs[i]
      nameTok == node.tokens[CHOOSE k \in 1..Len(node.tokens) :
                    /\ node.tokens[k].type = "AttributeName"
                    /\ node.tokens[k].text = a.name
                    /\ Cardinality({m \in 1..k : node.tokens[m].type = "AttributeName"}) = i]
      valueOffset == nameTok.offset + Len(a.name) + 1
      quoted == a.raw # <<>> /\ a.raw[1] \in Quotes
      value == StripQuotes(a.raw)
      valueStart == valueOffset + (IF quoted THEN 1 ELSE 0)
  IN [node |-> node.start, name |-> a.name, raw |-> a.raw, value |-> value,
      range |-> Range(valueStart, valueStart + Len(value)),
      fullRange |-> Range(nameTok.offset,
                          IF a.raw = <<>> THEN nameTok.offset + Len(a.name)
                          ELSE valueOffset + Len(a.raw))]

\* every attribute written in the text
WrittenAttrs(text) ==
  LET es == FlatElems(text)
      ns == FlatNodes(htmlRoots(text))
  IN UNION { {WrittenAttr(es[j], ns[j], i) : i \in 1..Len(es[j].attrs)} : j \in 1..Len(es) }

\* INVALID_PATTERN.lastIndex when the parse reached the attribute
LastIndexAt(result, w) ==
  LET hits == {k \in 1..Len(result.visited) :
                 /\ result.visited[k].node = w.node
                 /\ result.visited[k].attr.fullRange = w.fullRange}
  IN IF hits = {} THEN 0 ELSE result.visited[SetMin(hits)].lastIndex

\* the occurrences an attribute stands for: one per token of its value for a
\* definition, the whole value for a reference with a non-empty value
DefinitionOccurrences(w, li) ==
  LET toks == parseTokens(w.value, li)
  IN { [key |-> toks[i].token,
        range |-> Range(w.range.start + toks[i].characterDelta,
                        w.range.start + toks[i].characterDelta + Len(toks[i].token))] :
       i \in 1..Len(toks) }

ReferenceOccurrences(w) ==
  IF w.value = <<>> THEN {} ELSE { [key |-> w.value, range |-> w.range] }

Occurrences(text, result, kind, role) ==
  UNION { IF role = "definition" /\ isDefinition(kind, w.name)
          THEN DefinitionOccurrences(w, LastIndexAt(result, w))
          ELSE IF role = "reference" /\ isReference(kind, w.name)
          THEN ReferenceOccurrences(w)
          ELSE {} : w \in WrittenAttrs(text) }

\* the table holds exactly the occurrences, grouped by key, each key once and
\* each occurrence once
TableHolds(table, occ) ==
  /\ \A i, j \in 1..Len(table) : table[i].key = table[j].key => i = j
  /\ \A i \in 1..Len(table) :
       \A m, n \in 1..Len(table[i].ranges) :
          table[i].ranges[m] = table[i].ranges[n] => m = n
  /\ UNION { {[key |-> table[i].key, range |-> table[i].ranges[m]] :
                m \in 1..Len(table[i].ranges)} : i \in 1..Len(table) } = occ

\* C8: a definition-role attribute with value v is recorded as one occurrence
\* per token of the tokenizer applied to v, at [value start + token offset,
\* value start + token offset + token length); a reference-role attribute with
\* a non-empty value v as exactly one occurrence keyed by the whole of v, at
\* the value range.
C8_OccurrencesRecorded ==
  call.fn = "parseHTMLDocument" =>
     \A kind \in Kinds :
        /\ TableHolds(definitionsOf(kind, call.result),
                      Occurrences(CallText(call), call.result, kind, "definition"))
        /\ TableHolds(referencesOf(kind, call.result),
                      Occurrences(CallText(call), call.result, kind, "reference"))

\* the same for the texts whose attribute values are all written in quotes
AllQuoted(text) == \A w \in WrittenAttrs(text) : w.raw # <<>> /\ w.raw[1] \in Quotes

C8_QuotedOccurrencesRecorded ==
  (call.fn = "parseHTMLDocument" /\ AllQuoted(CallText(call))) =>
     \A kind \in Kinds :
        /\ TableHolds(definitionsOf(kind, call.result),
                      Occurrences(CallText(call), call.result, kind, "definition"))
        /\ TableHolds(referencesOf(kind, call.result),
                      Occurrences(CallText(call), call.result, kind, "reference"))

Ascending(ranges) ==
  \A i \in 1..(Len(ranges) - 1) : ranges[i].start < ranges[i + 1].start

\* C9: in each of the six tables the ranges stored for a name are in document
\* order (ascending source position), for every element tree.
C9_RangesInDocumentOrder ==
  call.fn = "parseHTMLDocument" =>
     \A n \in 1..6 :
        LET table == SixTables(call.result)[n]
        IN \A i \in 1..Len(table) : Ascending(table[i].ranges)

\* -------------------------------------------------------------------------
\* the workspace table `docs` (configure.ts) and its objects
\* -------------------------------------------------------------------------
\* docs is a Map<string, ParsedDocument>: insertion-ordered [url, id], where
\* id names the ParsedDocument object in the heap
docsHas(d, url) == \E i \in 1..Len(d) : d[i].url = url
docsGet(d, url) == d[CHOOSE i \in 1..Len(d) : d[i].url = url].id
docsSet(d, url, id) ==
  IF docsHas(d, url)
  THEN [i \in 1..Len(d) |-> IF d[i].url = url THEN [url |-> url, id |-> id] ELSE d[i]]
  ELSE Append(d, [url |-> url, id |-> id])
docsDelete(d, url) == SelectSeq(d, LAMBDA e : e.url # url)
docsValues(d, h) == [i \in 1..Len(d) |-> h[d[i].id]]

\* the object parseHTMLDocument returns
ParsedDocument(url, t, r) ==
  [doc |-> url, text |-> t,
   event_definitions |-> r.event_definitions,
   event_references |-> r.event_references,
   state_definitions |-> r.state_definitions,
   state_references |-> r.state_references,
   result_definitions |-> r.result_definitions,
   result_references |-> r.result_references,
   diagnostics |-> r.diagnostics]

\* object ids: an object lives while the table or a suspended handler holds it
heldIds(d, pend) ==
  {d[i].id : i \in 1..Len(d)} \cup
  {q.cur : q \in BagToSet(pend)}
newObject(h) == Len(h) + 1
\* the ids in the order the table lists them, then those only a handler holds
RECURSIVE ascending(_)
ascending(S) == IF S = {} THEN <<>> ELSE <<SetMin(S)>> \o ascending(S \ {SetMin(S)})
idOrder(d, pend) ==
  LET first == SelectSeq([i \in 1..Len(d) |-> i],
                         LAMBDA i : \A j \in 1..(i - 1) : d[j].id # d[i].id)
      listed == [k \in 1..Len(first) |-> d[first[k]].id]
  IN listed \o ascending(heldIds(d, pend) \ {d[i].id : i \in 1..Len(d)})
idIn(order, id) == CHOOSE k \in 1..Len(order) : order[k] = id
\* objects nothing holds are gone; the rest are numbered in idOrder
collectHeap(h, d, pend) == [k \in 1..Len(idOrder(d, pend)) |-> h[idOrder(d, pend)[k]]]
collectDocs(d, pend) ==
  [i \in 1..Len(d) |-> [url |-> d[i].url, id |-> idIn(idOrder(d, pend), d[i].id)]]
collectPending(d, pend) ==
  LET order == idOrder(d, pend)
      moved(q) == [q EXCEPT !.cur = idIn(order, q.cur)]
  IN BagOfAll(moved, pend)

\* the vscode TextDocument of a url: its language follows from the file name
languageIdOf(url) == IF url = "c.txt" THEN "plaintext" ELSE "html"

\* node:path matchesGlob, on the paths and patterns of the model. A url stands
\* for the absolute path of its file, which a pattern matches only from `**/` on
matchesGlob(path, pattern) ==
  <<path, pattern>> \in { <<"c.txt", "**/*.txt">>, <<"a.html", "**/*.html">>,
                          <<"b.html", "**/*.html">> }

glob(path, pattern) ==
  \/ matchesGlob(path, pattern)
  \/ matchesGlob(path, "**/" \o pattern)
  \/ matchesGlob(path, pattern \o "/**")
  \/ matchesGlob(path, "**/" \o pattern \o "/**")

\* variant: the include patterns decide alone
match_includeAlone(path, excl, incl) == \E j \in 1..Len(incl) : glob(path, incl[j])

match(path, excl, incl) ==
  IF \E i \in 1..Len(excl) : glob(path, excl[i])
  THEN \E j \in 1..Len(incl) : glob(path, incl[j])
  ELSE TRUE

\* -------------------------------------------------------------------------
\* the resolver: addPartialReferenceDiagnostics, addReferenceDiagnostics,
\* updateDiagnosticCollection
\* -------------------------------------------------------------------------
tableOf(cur, kind, role) ==
  IF role = "definition" THEN definitionsOf(kind, cur) ELSE referencesOf(kind, cur)

\* variant: a diagnostic for every name of `left`, whatever the other tables hold
addPartialReferenceDiagnostics_noLookup(diagnostics, left, k, rightRole, kind, tpl, severity, tags, all) ==
  diagnostics \o [i \in 1..Len(left) |-> Diagnostic(left[i].ranges[1], Message(tpl, "", kind, left[i].key, <<>>), severity, tags)]

\* for (const [action, ranges] of left(cur)) ...; `all` is docs.values()
RECURSIVE addPartialReferenceDiagnostics(_, _, _, _, _, _, _, _, _)
addPartialReferenceDiagnostics(diagnostics, left, k, rightRole, kind, tpl, severity, tags, all) ==
  IF k > Len(left) THEN diagnostics
  ELSE LET action == left[k].key
           ranges == left[k].ranges
           found == \E i \in 1..Len(all) : mapHas(tableOf(all[i], kind, rightRole), action)
           more == [i \in 1..Len(ranges) |->
                      Diagnostic(ranges[i], Message(tpl, "", kind, action, <<>>),
                                 severity, tags)]
       IN addPartialReferenceDiagnostics(
            IF found THEN diagnostics ELSE diagnostics \o more,
            left, k + 1, rightRole, kind, tpl, severity, tags, all)

\* variant: the unused pass tags at every severity
addReferenceDiagnostics_tagsAlways(diagnostics, cur, kind, unusedSeverity, undefinedSeverity, all) ==
  LET d1 == IF unusedSeverity # "undefined"
            THEN addPartialReferenceDiagnostics(diagnostics,
                   tableOf(cur, kind, "definition"), 1, "reference", kind,
                   "UNUSED_TPL", unusedSeverity, {"Unnecessary"}, all)
            ELSE diagnostics
  IN IF undefinedSeverity # "undefined"
     THEN addPartialReferenceDiagnostics(d1,
            tableOf(cur, kind, "reference"), 1, "definition", kind,
            "UNDECLARED_TPL", undefinedSeverity, {}, all)
     ELSE d1

addReferenceDiagnostics(diagnostics, cur, kind, unusedSeverity, undefinedSeverity, all) ==
  LET d1 == IF unusedSeverity # "undefined"
            THEN addPartialReferenceDiagnostics(diagnostics,
                   tableOf(cur, kind, "definition"), 1, "reference", kind,
                   "UNUSED_TPL", unusedSeverity,
                   IF unusedSeverity = "Warning" THEN {"Unnecessary"} ELSE {}, all)
            ELSE diagnostics
  IN IF undefinedSeverity # "undefined"
     THEN addPartialReferenceDiagnostics(d1,
            tableOf(cur, kind, "reference"), 1, "definition", kind,
            "UNDECLARED_TPL", undefinedSeverity, {}, all)
     ELSE d1

\* the list set for one document
documentDiagnostics(cur, unusedSeverity, undefinedSeverity, all) ==
  addReferenceDiagnostics(
    addReferenceDiagnostics(
      addReferenceDiagnostics(<<>>, cur, "event", unusedSeverity, undefinedSeverity, all),
      cur, "state", unusedSeverity, undefinedSeverity, all),
    cur, "result", unusedSeverity, undefinedSeverity, all)
  \o cur.diagnostics

\* diagnosticCollection.clear(), then set(cur.doc.uri, ...) for each value of docs
RECURSIVE setDiagnostics(_, _, _, _, _)
setDiagnostics(coll, all, k, unusedSeverity, undefinedSeverity) ==
  IF k > Len(all) THEN coll
  ELSE setDiagnostics(
         [coll EXCEPT ![all[k].doc] =
            [present |-> TRUE,
             items |-> documentDiagnostics(all[k], unusedSeverity, undefinedSeverity, all)]],
         all, k + 1, unusedSeverity, undefinedSeverity)

updateDiagnosticCollection(d, h, unusedSeverity, undefinedSeverity) ==
  setDiagnostics(NoPublished, docsValues(d, h), 1, unusedSeverity, undefinedSeverity)

\* -------------------------------------------------------------------------
\* the event handlers
\* -------------------------------------------------------------------------
\* a call of onDidRename waiting at its await: its oldUri, newUri and cur
Suspended(uri, newUri, cur) == [uri |-> uri, newUri |-> newUri, cur |-> cur]

\* variant: the table is written whether or not it holds the url
setDocs_always(url, t, overwrite, pend) ==
  LET r == parsed[t, lastIndex]
      d == docsSet(docs, url, newObject(heap))
      h == Append(heap, ParsedDocument(url, t, r))
  IN /\ lastIndex' = r.lastIndex
     /\ docs' = collectDocs(d, pend)
     /\ heap' = collectHeap(h, d, pend)
     /\ published' = updateDiagnosticCollection(d, h, actionUnusedSeverity, actionUndefinedSeverity)
     /\ pending' = collectPending(d, pend)

\* setDocs(doc, overwrite) for the document of `url` holding text t
setDocs(url, t, overwrite, pend) ==
  IF docsHas(docs, url) # overwrite
       \/ languageIdOf(url) \notin languageIds
       \/ ~match(url, exclude, include)
  THEN /\ pending' = pend
       /\ UNCHANGED <<lastIndex, docs, heap, published>>
  ELSE LET r == parsed[t, lastIndex]
           id == newObject(heap)
           d == docsSet(docs, url, id)
           h == Append(heap, ParsedDocument(url, t, r))
       IN /\ lastIndex' = r.lastIndex
          /\ docs' = collectDocs(d, pend)
          /\ heap' = collectHeap(h, d, pend)
          /\ published' = updateDiagnosticCollection(d, h, actionUnusedSeverity,
                                                     actionUndefinedSeverity)
          /\ pending' = collectPending(d, pend)

\* workspace.onDidOpenTextDocument(onDidCreateDoc)
onDidCreateDoc(url, t) ==
  /\ setDocs(url, t, FALSE, pending)
  /\ UNCHANGED <<input, call, history, configVars>>

\* onDidCreate: workspace.openTextDocument(uri).then(onDidCreateDoc). The call
\* reads and writes nothing of the extension's state, so the handler is the
\* callback, run when the document (text t) arrives
onDidCreate(url, t) ==
  /\ setDocs(url, t, FALSE, pending)
  /\ UNCHANGED <<input, call, history, configVars>>

\* onDidChange: workspace.openTextDocument(uri).then(onDidChangeDoc)
onDidChange(url, t) ==
  /\ setDocs(url, t, TRUE, pending)
  /\ UNCHANGED <<input, call, history, configVars>>

\* onDidRename up to `await workspace.openTextDocument(newUri)`
onDidRename(oldUrl, newUrl) ==
  /\ BagCardinality(pending) < MaxPending
  /\ IF docsHas(docs, oldUrl)
     THEN pending' = pending (+)
            SetToBag({Suspended(oldUrl, newUrl, docsGet(docs, oldUrl))})
     ELSE UNCHANGED pending
  /\ UNCHANGED <<lastIndex, input, call, history, docs, heap, published, configVars>>

\* variant: the entry under the old url is kept
onDidRenameOpened_keepsOld(q) ==
  /\ q \in BagToSet(pending)
  /\ LET pend == pending (-) SetToBag({q})
         h1 == [heap EXCEPT ![q.cur].doc = q.newUri]
         d == docsSet(docs, q.newUri, q.cur)
     IN /\ docs' = collectDocs(d, pend)
        /\ heap' = collectHeap(h1, d, pend)
        /\ published' = updateDiagnosticCollection(d, h1, actionUnusedSeverity,
                                                   actionUndefinedSeverity)
        /\ pending' = collectPending(d, pend)
  /\ UNCHANGED <<lastIndex, input, call, history, configVars>>

\* onDidRename after the await: cur.doc = ...; docs.delete; docs.set; update
onDidRenameOpened(q) ==
  /\ q \in BagToSet(pending)
  /\ LET pend == pending (-) SetToBag({q})
         h1 == [heap EXCEPT ![q.cur].doc = q.newUri]
         d == docsSet(docsDelete(docs, q.uri), q.newUri, q.cur)
     IN /\ docs' = collectDocs(d, pend)
        /\ heap' = collectHeap(h1, d, pend)
        /\ published' = updateDiagnosticCollection(d, h1, actionUnusedSeverity,
                                                   actionUndefinedSeverity)
        /\ pending' = collectPending(d, pend)
  /\ UNCHANGED <<lastIndex, input, call, history, configVars>>

\* openTextDocument rejects (the file is gone): the handler ends there
openTextDocumentFails(q) ==
  /\ q \in BagToSet(pending)
  /\ LET pend == pending (-) SetToBag({q})
     IN /\ docs' = collectDocs(docs, pend)
        /\ heap' = collectHeap(heap, docs, pend)
        /\ pending' = collectPending(docs, pend)
  /\ UNCHANGED <<lastIndex, input, call, history, published, configVars>>

\* onDidChangeTextDocument with non-empty contentChanges that give text t
onDidChangeTextDocument(url, t) ==
  /\ docsHas(docs, url)
  /\ LET r == parsed[t, lastIndex]
         id == newObject(heap)
         d == docsSet(docs, url, id)
         h == Append(heap, ParsedDocument(url, t, r))
     IN /\ lastIndex' = r.lastIndex
        /\ docs' = collectDocs(d, pending)
        /\ heap' = collectHeap(h, d, pending)
        /\ published' = updateDiagnosticCollection(d, h, actionUnusedSeverity,
                                                   actionUndefinedSeverity)
        /\ pending' = collectPending(d, pending)
  /\ UNCHANGED <<input, call, history, configVars>>

onDidDelete(url) ==
  /\ LET d == docsDelete(docs, url)
     IN /\ docs' = collectDocs(d, pending)
        /\ heap' = collectHeap(heap, d, pending)
        /\ published' = updateDiagnosticCollection(d, heap, actionUnusedSeverity,
                                                   actionUndefinedSeverity)
        /\ pending' = collectPending(d, pending)
  /\ UNCHANGED <<lastIndex, input, call, history, configVars>>

\* the { oldUri, newUri } pairs the rename events carry
Renames == { <<"a.html", "b.html">>, <<"a.html", "c.txt">> }

\* keml.actionUnusedSeverity / keml.actionUndefinedSeverity as configure reads them
SeverityPairs == { <<"Error", "Error">>, <<"Warning", "undefined">> }

Init ==
  /\ lastIndex = 0
  /\ input = <<>>
  /\ call = NoCall
  /\ history = NoHistory
  /\ docs = <<>>
  /\ heap = <<>>
  /\ published = NoPublished
  /\ pending = EmptyBag
  /\ \E p \in SeverityPairs : /\ actionUnusedSeverity = p[1]
                              /\ actionUndefinedSeverity = p[2]
  /\ languageIds = {"html"}
  /\ exclude = <<>>
  /\ include = <<>>

Next ==
  \/ \E u \in Urls, t \in WsTextIds : onDidCreateDoc(u, t)
  \/ \E u \in Urls, t \in WsTextIds : onDidCreate(u, t)
  \/ \E u \in Urls, t \in WsTextIds : onDidChange(u, t)
  \/ \E f \in Renames : onDidRename(f[1], f[2])
  \/ \E q \in BagToSet(pending) : onDidRenameOpened(q)
  \/ \E q \in BagToSet(pending) : openTextDocumentFails(q)
  \/ \E u \in Urls, t \in WsTextIds : onDidChangeTextDocument(u, t)
  \/ \E u \in Urls : onDidDelete(u)

Spec == Init /\ [][Next]_vars

\* -------------------------------------------------------------------------
\* configure and the specification of the workspace under configuration changes
\* -------------------------------------------------------------------------
\* variant: a setting the map does not hold falls back to Error
severityMap_fallback(setting) ==
  IF setting \in {"Error", "Warning", "Information", "Hint"} THEN setting ELSE "Error"

\* severityMap.get(setting): undefined for a setting the map does not hold
severityMap(setting) ==
  IF setting \in {"Error", "Warning", "Information", "Hint"} THEN setting ELSE "undefined"

\* the settings configure reads: keml.actionUnusedSeverity,
\* keml.actionUndefinedSeverity, keml.languageIds, keml.include and the
\* patterns search.exclude switches on
Settings ==
  { [unused |-> "Error", undefined |-> "Error", languageIds |-> {"html"},
     include |-> <<>>, exclude |-> <<>>],
    [unused |-> "Warning", undefined |-> "Disable", languageIds |-> {"html"},
     include |-> <<>>, exclude |-> <<>>],
    [unused |-> "Disable", undefined |-> "Warning", languageIds |-> {"html", "plaintext"},
     include |-> <<>>, exclude |-> <<"*.txt">>],
    [unused |-> "Hint", undefined |-> "Information", languageIds |-> {"html", "plaintext"},
     include |-> <<"*.txt">>, exclude |-> <<"*.txt">>],
    [unused |-> "Error", undefined |-> "Error", languageIds |-> {"html", "plaintext"},
     include |-> <<"*.txt">>, exclude |-> <<"*.html">>],
    [unused |-> "Error", undefined |-> "Error", languageIds |-> {"html", "plaintext"},
     include |-> <<"*.html">>, exclude |-> <<"*.html", "*.txt">>] }

\* workspace.textDocuments at the time of the call: <<url, text>> pairs
OpenDocuments == { <<>>, << <<"a.html", 7>> >>, << <<"c.txt", 8>> >> }

\* for (const [url, cur] of docs) if (!languageIds.includes(cur.doc.languageId)
\* || !match(cur.doc.uri.path, exclude, include)) docs.delete(url)
pruneDocs(d, h, k) ==
  SelectSeq(d, LAMBDA e : /\ languageIdOf(h[e.id].doc) \in k.languageIds
                          /\ match(h[e.id].doc, k.exclude, k.include))

\* workspace.textDocuments.forEach(onDidCreateDoc) under the settings just read;
\* st holds lastIndex, docs, heap and published
RECURSIVE createDocs(_, _, _, _)
createDocs(st, open, i, k) ==
  IF i > Len(open) THEN st
  ELSE LET url == open[i][1]
           r == parsed[open[i][2], st.lastIndex]
           d == docsSet(st.docs, url, newObject(st.heap))
           h == Append(st.heap, ParsedDocument(url, open[i][2], r))
       IN IF docsHas(st.docs, url)
               \/ languageIdOf(url) \notin k.languageIds
               \/ ~match(url, k.exclude, k.include)
          THEN createDocs(st, open, i + 1, k)
          ELSE createDocs([lastIndex |-> r.lastIndex, docs |-> d, heap |-> h,
                           published |-> updateDiagnosticCollection(d, h,
                              severityMap(k.unused), severityMap(k.undefined))],
                          open, i + 1, k)

\* configure up to `await workspace.findFiles(fileExtensionGlob)`; the glob is
\* never null here, html being among the configured languages
configure(k, open) ==
  /\ call = NoCall
  /\ LET d0 == pruneDocs(docs, heap, k)
         st == createDocs([lastIndex |-> lastIndex, docs |-> d0, heap |-> heap,
                           published |-> published], open, 1, k)
     IN /\ lastIndex' = st.lastIndex
        /\ docs' = collectDocs(st.docs, pending)
        /\ heap' = collectHeap(st.heap, st.docs, pending)
        /\ published' = st.published
        /\ pending' = collectPending(st.docs, pending)
  /\ actionUnusedSeverity' = severityMap(k.unused)
  /\ actionUndefinedSeverity' = severityMap(k.undefined)
  /\ languageIds' = k.languageIds
  /\ exclude' = k.exclude
  /\ include' = k.include
  /\ call' = [fn |-> "configure"]
  /\ UNCHANGED <<input, history>>

\* configure after `await Promise.all(files.map(onDidCreate))`:
\* updateDiagnosticCollection(); updateFileSystemWatcher(). The files found are
\* the onDidCreate steps taken in between
configureFound ==
  /\ call = [fn |-> "configure"]
  /\ published' = updateDiagnosticCollection(docs, heap, actionUnusedSeverity,
                                             actionUndefinedSeverity)
  /\ call' = NoCall
  /\ UNCHANGED <<lastIndex, input, history, docs, heap, pending, configVars>>

\* findFiles or one openTextDocument rejects: configure ends at its await
configureRejected ==
  /\ call = [fn |-> "configure"]
  /\ call' = NoCall
  /\ UNCHANGED <<lastIndex, input, history, workspaceVars>>

\* !e.affectsConfiguration("keml") || !e.affectsConfiguration("search") ||
\* configure(): k is what the settings hold when the event is delivered
onDidChangeConfiguration(affectsKeml, affectsSearch, k, open) ==
  IF ~affectsKeml \/ ~affectsSearch
  THEN UNCHANGED vars
  ELSE configure(k, open)

NextConf ==
  \/ \E affectsKeml, affectsSearch \in BOOLEAN, k \in Settings, open \in OpenDocuments : onDidChangeConfiguration(affectsKeml, affectsSearch, k, open)
  \/ configureFound
  \/ configureRejected
  \/ \E u \in Urls, t \in ConfTextIds : onDidCreateDoc(u, t)
  \/ \E u \in Urls, t \in ConfTextIds : onDidCreate(u, t)
  \/ \E u \in Urls, t \in ConfTextIds : onDidChange(u, t)
  \/ \E u \in Urls, t \in ConfTextIds : onDidChangeTextDocument(u, t)
  \/ \E u \in Urls : onDidDelete(u)

SpecConf == Init /\ [][NextConf]_vars

\* -------------------------------------------------------------------------
\* properties of the workspace table and the resolver
\* -------------------------------------------------------------------------
Tracked(u) == docsHas(docs, u)
TrackedDocs == {u \in Urls : Tracked(u)}
EntryOf(u) == heap[docsGet(docs, u)]
Roles == {"definition", "reference"}
otherRole(role) == IF role = "definition" THEN "reference" ELSE "definition"
templateOf(role) == IF role = "definition" THEN "UNUSED_TPL" ELSE "UNDECLARED_TPL"
severityOf(role) ==
  IF role = "definition" THEN actionUnusedSeverity ELSE actionUndefinedSeverity

\* some tracked document has n in its kind-K table of the given role
SomeTrackedHas(kind, role, n) ==
  \E v \in TrackedDocs : mapHas(tableOf(EntryOf(v), kind, role), n)

\* how many published diagnostics of u say tpl about (kind, n) at range r
NumPublished(u, tpl, kind, n, r) ==
  Cardinality({i \in 1..Len(published[u].items) :
                 /\ published[u].items[i].message = Message(tpl, "", kind, n, <<>>)
                 /\ published[u].items[i].range = r})

\* one diagnostic per stored range of the entry iff no counterpart is tracked
OnePerRangeIffNoCounterpart(role) ==
  \A u \in TrackedDocs : \A kind \in Kinds :
    LET tab == tableOf(EntryOf(u), kind, role)
    IN \A k \in 1..Len(tab) :
         \A r \in {tab[k].ranges[i] : i \in 1..Len(tab[k].ranges)} :
           NumPublished(u, templateOf(role), kind, tab[k].key, r) =
             IF SomeTrackedHas(kind, otherRole(role), tab[k].key)
             THEN 0
             ELSE Cardinality({i \in 1..Len(tab[k].ranges) : tab[k].ranges[i] = r})

\* C1: with the unused severity enabled, every tracked document's published
\* diagnostics hold one unused-action diagnostic per stored definition range of
\* a name exactly when no tracked document references that name in that kind
C1_UnusedIffUnreferenced ==
  actionUnusedSeverity # "undefined" => OnePerRangeIffNoCounterpart("definition")

\* C2: with the undefined severity enabled, every tracked document's published
\* diagnostics hold one undefined-action diagnostic per stored reference range
\* of a name exactly when no tracked document defines that name in that kind
C2_UndefinedIffUndefined ==
  actionUndefinedSeverity # "undefined" => OnePerRangeIffNoCounterpart("reference")

\* the occurrences of u's entry that call for a cross-document diagnostic
CrossOccurrences(u) ==
  UNION { UNION { { [kind |-> kind, role |-> role, k |-> k, i |-> i] :
                      i \in 1..Len(tableOf(EntryOf(u), kind, role)[k].ranges) } :
                  k \in { j \in 1..Len(tableOf(EntryOf(u), kind, role)) :
                            ~SomeTrackedHas(kind, otherRole(role),
                                            tableOf(EntryOf(u), kind, role)[j].key) } } :
          <<kind, role>> \in { p \in Kinds \X Roles : severityOf(p[2]) # "undefined" } }

CrossDiagnostic(u, o) ==
  LET e == tableOf(EntryOf(u), o.kind, o.role)[o.k]
  IN Diagnostic(e.ranges[o.i], Message(templateOf(o.role), "", o.kind, e.key, <<>>),
                severityOf(o.role),
                IF o.role = "definition" /\ actionUnusedSeverity = "Warning"
                THEN {"Unnecessary"} ELSE {})

\* items = the cross-document diagnostics of u, then u's cached local ones
PublishedIsCrossThenLocal(u) ==
  LET items == published[u].items
      local == EntryOf(u).diagnostics
      n == Len(items) - Len(local)
  IN /\ n >= 0
     /\ SubSeq(items, n + 1, Len(items)) = local
     /\ n = Cardinality(CrossOccurrences(u))
     /\ \A o \in CrossOccurrences(u) :
          Cardinality({i \in 1..n : items[i] = CrossDiagnostic(u, o)}) =
          Cardinality({x \in CrossOccurrences(u) :
                         CrossDiagnostic(u, x) = CrossDiagnostic(u, o)})

\* C3: with no handler in flight, every tracked document's published
\* diagnostics are its cross-document diagnostics under the current table and
\* severities followed by its cached local diagnostics, and no document absent
\* from the table has published diagnostics
C3_PublishedFollowsTable ==
  pending = EmptyBag =>
    \A u \in Urls :
      IF Tracked(u)
      THEN published[u].present /\ PublishedIsCrossThenLocal(u)
      ELSE ~published[u].present

\* C4: when a rename of a tracked document completes, the old identity has no
\* entry and the new identity holds the ParsedDocument the handler took from the
\* old one, its six tables and local diagnostics as they were, with no parse
\* run; a rename event for an untracked document changes nothing
C4_RenameRelinks ==
  [][ /\ \A q \in BagToSet(pending) :
           onDidRenameOpened(q) =>
             /\ ~docsHas(docs', q.uri)
             /\ docsHas(docs', q.newUri)
             /\ SixTables(heap'[docsGet(docs', q.newUri)]) = SixTables(heap[q.cur])
             /\ heap'[docsGet(docs', q.newUri)].diagnostics = heap[q.cur].diagnostics
             /\ heap'[docsGet(docs', q.newUri)].doc = q.newUri
             /\ lastIndex' = lastIndex
      /\ \A f \in Renames :
           (onDidRename(f[1], f[2]) /\ ~docsHas(docs, f[1])) => UNCHANGED vars
    ]_vars

\* c.txt is tracked only by a rename: it holds what a.html held, a.html is gone
C4_Witness ==
  /\ docsHas(docs, "c.txt")
  /\ ~docsHas(docs, "a.html")
  /\ pending = EmptyBag
  /\ EntryOf("c.txt").event_definitions # <<>>
  /\ EntryOf("c.txt").diagnostics # <<>>

\* -------------------------------------------------------------------------
\* the parser applied to one element whose attributes the author writes
\* -------------------------------------------------------------------------
MaxAttrs == 2

t_a == <<"a">>

\* position and reference-role attributes as written: quoted, unquoted (on=a)
\* and without a value (on)
RefAttrs ==
  { Attr(<<"p","o","s","i","t","i","o","n">>, Q(<<"b","e","f","o","r","e">>)),
    Attr(<<"p","o","s","i","t","i","o","n">>, Q(<<"x">>)),
    Attr(<<"p","o","s","i","t","i","o","n">>, Q(<<"(">>)),
    Attr(<<"x","-","p","o","s","i","t","i","o","n">>, Q(<<"x">>)),
    Attr(<<"x","-","p","o","s","i","t","i","o","n">>, Q(<<"(">>)),
    Attr(<<"o","n">>, Q(<<>>)),
    Attr(<<"o","n">>, Q(<<" ","a">>)),
    Attr(<<"o","n">>, Q(<<"a"," ">>)),
    Attr(<<"o","n">>, Q(<<"a"," ","b">>)),
    Attr(<<"o","n">>, Q(<<"a">>)),
    Attr(<<"o","n">>, <<"a">>),
    Attr(<<"o","n">>, <<>>),
    Attr(<<"x","-","o","n">>, Q(<<>>)),
    Attr(<<"x","-","o","n">>, Q(<<" ","a">>)),
    Attr(<<"x","-","o","n">>, Q(<<"a">>)),
    Attr(<<"r","e","s","e","t">>, Q(<<>>)),
    Attr(<<"r","e","s","e","t">>, Q(<<" ","a">>)),
    Attr(<<"r","e","s","e","t">>, Q(<<"a">>)),
    Attr(<<"x","-","r","e","s","e","t">>, Q(<<>>)),
    Attr(<<"x","-","r","e","s","e","t">>, Q(<<" ","a">>)),
    Attr(<<"x","-","r","e","s","e","t">>, Q(<<"a">>)),
    Attr(<<"i","f">>, Q(<<>>)),
    Attr(<<"i","f">>, Q(<<" ","a">>)),
    Attr(<<"i","f">>, Q(<<"a">>)),
    Attr(<<"x","-","i","f">>, Q(<<>>)),
    Attr(<<"x","-","i","f">>, Q(<<" ","a">>)),
    Attr(<<"x","-","i","f">>, Q(<<"a">>)),
    Attr(<<"r","e","n","d","e","r">>, Q(<<>>)),
    Attr(<<"r","e","n","d","e","r">>, Q(<<" ","a">>)),
    Attr(<<"r","e","n","d","e","r">>, Q(<<"a">>)),
    Attr(<<"x","-","r","e","n","d","e","r">>, Q(<<>>)),
    Attr(<<"x","-","r","e","n","d","e","r">>, Q(<<" ","a">>)),
    Attr(<<"x","-","r","e","n","d","e","r">>, Q(<<"a">>)) }

\* attributes with companions, the companions themselves and plain ones
DepAttrs ==
  { Attr(<<"o","n","c","e">>, Q(<<"v">>)),
    Attr(<<"x","-","o","n","c","e">>, Q(<<"v">>)),
    Attr(<<"h","-","x">>, Q(<<"v">>)),
    Attr(<<"x","-","h","-","x">>, Q(<<"v">>)),
    Attr(<<"h","r","e","f">>, Q(<<"v">>)),
    Attr(<<"x","-","h","r","e","f">>, Q(<<"v">>)),
    Attr(<<"e","v","e","n","t",":","c","l","i","c","k">>, Q(<<"v">>)),
    Attr(<<"x","-","e","v","e","n","t",":","c","l","i","c","k">>, Q(<<"v">>)),
    Attr(<<"o","n",":","c","l","i","c","k">>, Q(<<"v">>)),
    Attr(<<"x","-","o","n",":","c","l","i","c","k">>, Q(<<"v">>)),
    Attr(<<"x","-","f","o","o">>, Q(<<"v">>)),
    Attr(<<"c","l","a","s","s">>, Q(<<"v">>)),
    Attr(<<"o","n">>, Q(<<"v">>)),
    Attr(<<"x","-","o","n">>, Q(<<"v">>)),
    Attr(<<"r","e","n","d","e","r">>, Q(<<"v">>)),
    Attr(<<"x","-","r","e","n","d","e","r">>, Q(<<"v">>)),
    Attr(<<"i","f">>, Q(<<"v">>)),
    Attr(<<"x","-","i","f">>, Q(<<"v">>)),
    Attr(<<"i","f",":","l","o","a","d","i","n","g">>, Q(<<"v">>)),
    Attr(<<"p","o","s","i","t","i","o","n">>, Q(<<"b","e","f","o","r","e">>)),
    Attr(<<"x","-","p","o","s","i","t","i","o","n">>, Q(<<"b","e","f","o","r","e">>)),
    Attr(<<"o","n">>, <<>>),
    Attr(<<"x","-","i","f">>, <<>>),
    Attr(<<"o","n","c","e">>, <<>>) }

\* the author adds an attribute the element does not have yet
AddAttribute(a) ==
  /\ Len(input) < MaxAttrs
  /\ \A i \in 1..Len(input) : input[i].name # a.name
  /\ input' = Append(input, a)
  /\ call' = NoCall
  /\ UNCHANGED <<lastIndex, history, workspaceVars>>

\* ... or starts the next element
NewElement ==
  /\ input # <<>>
  /\ input' = <<>>
  /\ call' = NoCall
  /\ UNCHANGED <<lastIndex, history, workspaceVars>>

\* parseHTMLDocument on the document <tag attributes></tag>
ParseElement(tag) ==
  LET r == parseRoots(htmlRoots(<< Elem(tag, input, <<>>) >>), lastIndex)
  IN /\ call' = [fn |-> "parseElement", tag |-> tag, arg |-> input,
                 lastIndex |-> lastIndex, result |-> r]
     /\ lastIndex' = r.lastIndex
     /\ UNCHANGED <<input, history, workspaceVars>>

NextRefs ==
  \/ \E a \in RefAttrs : AddAttribute(a)
  \/ NewElement
  \/ ParseElement(t_div)

SpecRefs == Idle /\ [][NextRefs]_vars

NextDeps ==
  \/ \E a \in DepAttrs : AddAttribute(a)
  \/ NewElement
  \/ \E tag \in {t_div, t_a} : ParseElement(tag)

SpecDeps == Idle /\ [][NextDeps]_vars

\* -------------------------------------------------------------------------
\* properties of the local diagnostics (SpecRefs, SpecDeps)
\* -------------------------------------------------------------------------
\* the attributes of the parsed text that were written with a value
Valued(c) == {w \in WrittenAttrs(CallText(c)) : w.raw # <<>>}

\* how many local diagnostics with this template sit on the range
NumLocal(result, tpl, range) ==
  Cardinality({i \in 1..Len(result.diagnostics) :
                 /\ result.diagnostics[i].message.tpl = tpl
                 /\ result.diagnostics[i].range = range})

\* the diagnostics with this template on the range all have this severity and tags
LocalCarries(result, tpl, range, severity, tags) ==
  \A i \in 1..Len(result.diagnostics) :
    (result.diagnostics[i].message.tpl = tpl /\ result.diagnostics[i].range = range)
    => (result.diagnostics[i].severity = severity /\ result.diagnostics[i].tags = tags)

isAnyReference(name) ==
  isEventReference(name) \/ isStateReference(name) \/ isResultReference(name)

HasSpace(value) == \E i \in 1..Len(value) : value[i] \in Whitespace

HasBracket(value) == \E i \in 1..Len(value) : value[i] \in InvalidChars

\* C11: a position / x-position attribute gets the invalid-position Error on
\* its full range exactly when its value is none of the six valid positions
\* and contains no bracket character, whatever was parsed before it.
C11_InvalidPositionIff ==
  call.fn = "parseElement" =>
    \A w \in Valued(call) :
      isPosition(w.name) =>
        /\ NumLocal(call.result, "INVALID_POSITION", w.fullRange) =
             IF w.value \notin validPosition /\ ~HasBracket(w.value) THEN 1 ELSE 0
        /\ LocalCarries(call.result, "INVALID_POSITION", w.fullRange, "Error", {})

\* what C12 says of one attribute
ReferenceValueChecked(result, w) ==
  LET empty == w.value = <<>>
      edge == ~empty /\ (w.value[1] \in Whitespace \/ w.value[Len(w.value)] \in Whitespace)
  IN /\ NumLocal(result, "NO_ACTION", w.fullRange) = IF empty THEN 1 ELSE 0
     /\ NumLocal(result, "VERBATIM", w.fullRange) = IF edge THEN 1 ELSE 0
     /\ LocalCarries(result, "NO_ACTION", w.fullRange, "Warning", {"Unnecessary"})
     /\ LocalCarries(result, "VERBATIM", w.fullRange, "Error", {})

\* C12: a reference-role attribute gets, on its full range, one Warning tagged
\* unnecessary when its value is empty, one untagged Error when its non-empty
\* value starts or ends with whitespace, and neither otherwise; never both;
\* this for every such attribute of the element, whatever the earlier ones got.
C12_ReferenceValueChecks ==
  call.fn = "parseElement" =>
    \A w \in Valued(call) :
      isAnyReference(w.name) => ReferenceValueChecked(call.result, w)

\* the same for the reference attributes whose value is written in quotes
C12_QuotedReferenceValueChecks ==
  call.fn = "parseElement" =>
    \A w \in Valued(call) :
      (isAnyReference(w.name) /\ w.raw[1] \in Quotes) => ReferenceValueChecked(call.result, w)

\* C13: a reference-role attribute whose value contains whitespace anywhere,
\* between two other characters included, gets a local diagnostic about its
\* value on its full range.
C13_SpaceInReferenceIsReported ==
  call.fn = "parseElement" =>
    \A w \in Valued(call) :
      (isAnyReference(w.name) /\ HasSpace(w.value)) =>
         NumLocal(call.result, "VERBATIM", w.fullRange) >= 1

\* -------------------------------------------------------------------------
\* the companion an attribute needs (SpecDeps)
\* -------------------------------------------------------------------------
xForm(name) == <<"x","-">> \o name

\* the name without a leading x-
Unprefixed(name) == IF startsWith(name, <<"x","-">>) THEN slice(name, 2, Len(name)) ELSE name

\* on-dependent names: the fixed list, any h- prefixed name, and the
\* tag-specific names on a tag outside their native tags, each also in x- form
OnDependentAlsoInXForm(tag, name) ==
  LET n == Unprefixed(name)
  IN \/ n \in onDependentAttributes
     \/ startsWith(n, <<"h","-">>)
     \/ (n \in onDependentTagsKeys /\ tag \notin onDependentTags(n))

\* the same with the h- prefix taken as written only: x-h-<name> is not on-dependent
OnDependentHAsWritten(tag, name) ==
  LET n == Unprefixed(name)
  IN \/ n \in onDependentAttributes
     \/ startsWith(name, <<"h","-">>)
     \/ (n \in onDependentTagsKeys /\ tag \notin onDependentTags(n))

\* the companions of an attribute name on a tag, given which names are on-dependent
Companions(tag, name, onDep) ==
  (IF onDep THEN { <<"o","n">> } ELSE {})
  \cup (IF startsWith(Unprefixed(name), <<"e","v","e","n","t",":">>)
        THEN { <<"o","n">> \o slice(Unprefixed(name), 5, Len(Unprefixed(name))) } ELSE {})
  \cup (IF Unprefixed(name) = <<"p","o","s","i","t","i","o","n">>
        THEN { <<"r","e","n","d","e","r">> } ELSE {})
  \cup (IF startsWith(name, <<"x","-">>) THEN { <<"i","f">> } ELSE {})

\* the missing-companion warnings on a range that name this companion
DependsWarnings(result, range, depends) ==
  {i \in 1..Len(result.diagnostics) :
     /\ result.diagnostics[i].message.tpl = "DEP_TPL"
     /\ result.diagnostics[i].range = range
     /\ result.diagnostics[i].message.y = depends}

\* the names of the attributes the parsed element has
AttributeNames(c) == {c.arg[i].name : i \in 1..Len(c.arg)}

\* every name a missing-companion warning could name for the element
DependsNames(c) ==
  { <<"o","n">>, <<"r","e","n","d","e","r">>, <<"i","f">> }
  \cup { <<"o","n">> \o slice(Unprefixed(n), 5, Len(Unprefixed(n))) : n \in AttributeNames(c) }

\* what C14 says of one attribute with the given companions
CompanionChecked(c, w, companions) ==
  \A d \in DependsNames(c) :
    /\ Cardinality(DependsWarnings(c.result, w.fullRange, d)) =
         IF d \in companions /\ d \notin AttributeNames(c) /\ xForm(d) \notin AttributeNames(c)
         THEN 1 ELSE 0
    /\ \A i \in DependsWarnings(c.result, w.fullRange, d) :
         /\ c.result.diagnostics[i].severity = "Warning"
         /\ c.result.diagnostics[i].tags = {"Unnecessary"}
         /\ c.result.diagnostics[i].message.x = w.name

PassRan == published' # published

\* the severity setting of the pass is outside Error, Warning, Information, Hint
Disabled(role) == severityOf(role) = severityMap("Disable")

\* the published diagnostics made from this template
PublishedOf(tpl) ==
  UNION { { <<u, i>> : i \in { j \in 1..Len(published[u].items) :
                                 published[u].items[j].message.tpl = tpl } } : u \in Urls }

\* C15: when the unused (resp. undefined) severity setting is outside Error,
\* Warning, Information, Hint, a resolver pass publishes no unused (resp.
\* undefined) diagnostic for any document, whatever the table holds, and the
\* other pass publishes what it publishes otherwise.
C15_DisabledPassIsSkipped ==
  [][PassRan =>
       \A role \in Roles :
          Disabled(role)' =>
             /\ PublishedOf(templateOf(role))' = {}
             /\ ~Disabled(otherRole(role))' => OnePerRangeIffNoCounterpart(otherRole(role))'
    ]_vars

\* unused severity Disable, undefined severity Warning, the TextKinds document
\* alone: its result="stats" is rendered nowhere, and what is published for it
\* is its local diagnostics only
C15_Witness ==
  /\ actionUnusedSeverity = "undefined"
  /\ actionUndefinedSeverity = "Warning"
  /\ TrackedDocs = {"a.html"}
  /\ EntryOf("a.html").text = 7
  /\ mapHas(EntryOf("a.html").result_definitions, v_stats)
  /\ published["a.html"].present
  /\ published["a.html"].items = EntryOf("a.html").diagnostics

\* C16: every unused-action diagnostic a pass publishes carries the configured
\* unused severity and the unnecessary tag exactly when that severity is
\* Warning; every undefined-action diagnostic carries the configured undefined
\* severity and no tag.
C16_SeverityAndTag ==
  [][PassRan =>
       /\ \A p \in PublishedOf("UNUSED_TPL")' :
            /\ published'[p[1]].items[p[2]].severity = actionUnusedSeverity'
            /\ published'[p[1]].items[p[2]].tags =
                 IF actionUnusedSeverity' = "Warning" THEN {"Unnecessary"} ELSE {}
       /\ \A p \in PublishedOf("UNDECLARED_TPL")' :
            /\ published'[p[1]].items[p[2]].severity = actionUndefinedSeverity'
            /\ published'[p[1]].items[p[2]].tags = {}
    ]_vars

\* the TextKinds document alone with unused severity Warning: result="stats" is
\* never rendered and gets the one unused diagnostic, a Warning tagged unnecessary
C16_Witness ==
  /\ actionUnusedSeverity = "Warning"
  /\ TrackedDocs = {"a.html"}
  /\ EntryOf("a.html").text = 7
  /\ Cardinality(PublishedOf("UNUSED_TPL")) = 1
  /\ \A p \in PublishedOf("UNUSED_TPL") :
       /\ p[1] = "a.html"
       /\ published[p[1]].items[p[2]].message = Message("UNUSED_TPL", "", "result", v_stats, <<>>)
       /\ published[p[1]].items[p[2]].severity = "Warning"
       /\ published[p[1]].items[p[2]].tags = {"Unnecessary"}

\* -------------------------------------------------------------------------
\* the six classifiers applied to attribute names (SpecNames)
\* -------------------------------------------------------------------------
MaxNameLen == 9

\* what attribute names are put together from
NamePieces ==
  { <<"x","-">>, <<"o","n">>, <<"r","e","s","e","t">>, <<"i","f">>,
    <<"r","e","s","u","l","t">>, <<"e","r","r","o","r">>, <<"r","e","n","d","e","r">>,
    <<":">>, <<":","a">> }

\* the author writes on at the attribute name
AddPiece(p) ==
  /\ Len(input) + Len(p) <= MaxNameLen
  /\ input' = input \o p
  /\ call' = NoCall
  /\ UNCHANGED <<lastIndex, history, workspaceVars>>

\* the classifiers the chain of the parser asks, each applied to the name
classifiers(name) ==
  {c \in {"event_definitions", "event_references", "state_definitions",
          "state_references", "result_definitions", "result_references"} :
     \/ c = "event_definitions" /\ isEventDefinition(name)
     \/ c = "event_references" /\ isEventReference(name)
     \/ c = "state_definitions" /\ isStateDefinition(name)
     \/ c = "state_references" /\ isStateReference(name)
     \/ c = "result_definitions" /\ isResultDefinition(name)
     \/ c = "result_references" /\ isResultReference(name)}

Classify ==
  /\ call' = [fn |-> "classify", arg |-> input, result |-> classifiers(input)]
  /\ UNCHANGED <<lastIndex, input, history, workspaceVars>>

NextNames == (\E p \in NamePieces : AddPiece(p)) \/ NewElement \/ Classify

SpecNames == Idle /\ [][NextNames]_vars

\* the row of the classification grammar a name falls in, if any; <x> after the
\* colon is any text
GrammarRow(name) ==
  LET n == Unprefixed(name)
  IN IF startsWith(n, <<"o","n",":">>) THEN {"event_definitions"}
     ELSE IF n \in { <<"o","n">>, <<"r","e","s","e","t">> } THEN {"event_references"}
     ELSE IF startsWith(n, <<"i","f",":">>) THEN {"state_definitions"}
     ELSE IF n = <<"i","f">> THEN {"state_references"}
     ELSE IF n \in { <<"r","e","s","u","l","t">>, <<"e","r","r","o","r">> }
          THEN {"result_definitions"}
     ELSE IF n = <<"r","e","n","d","e","r">> THEN {"result_references"}
     ELSE {}

\* C17: classification is a partition: at most one of the six classifiers
\* holds for a name, the one of its row in the grammar (on:<x> event
\* definition; on, reset event reference; if:<x> state definition; if state
\* reference; result, error result definition; render result reference; each
\* also with x- in front), and none for a name outside the grammar.
C17_ClassificationIsPartition ==
  call.fn = "classify" =>
    /\ Cardinality(call.result) <= 1
    /\ call.result = GrammarRow(call.arg)

\* x-if:a is a state definition and nothing else
C17_Witness ==
  /\ call.fn = "classify"
  /\ call.arg = <<"x","-","i","f",":","a">>
  /\ call.result = {"state_definitions"}

\* -------------------------------------------------------------------------
\* the keys of the tables (SpecConf)
\* -------------------------------------------------------------------------
\* the six tables of an entry, as a set
TablesOf(cur) ==
  {tableOf(cur, p[1], p[2]) : p \in Kinds \X Roles}

\* the range lies within the other
Within(r, outer) == outer.start <= r.start /\ r.end <= outer.end

\* C18: in every ParsedDocument in the table none of the six tables has the
\* empty string as a key, every key maps to a non-empty list of ranges, and an
\* attribute whose value is empty has no range of its own in any table.
C18_NoEmptyKey ==
  \A u \in TrackedDocs :
    \A tab \in TablesOf(EntryOf(u)) :
      /\ \A k \in 1..Len(tab) : tab[k].key # <<>> /\ tab[k].ranges # <<>>
      /\ \A w \in WrittenAttrs(Texts[EntryOf(u).text]) :
           w.value = <<>> =>
             \A k \in 1..Len(tab) : \A i \in 1..Len(tab[k].ranges) :
                ~Within(tab[k].ranges[i], w.fullRange)

\* <div on="" on:click=" " result="" render="stats"> is tracked: its only key is
\* stats, among the result references
C18_Witness ==
  /\ Tracked("a.html")
  /\ EntryOf("a.html").text = 8
  /\ EntryOf("a.html").result_references # <<>>
  /\ EntryOf("a.html").event_references = <<>>
  /\ EntryOf("a.html").event_definitions = <<>>
  /\ EntryOf("a.html").result_definitions = <<>>

\* -------------------------------------------------------------------------
\* which documents the table holds (SpecConf, Spec)
\* -------------------------------------------------------------------------
\* the document's language is configured and its path passes the filter
InScope(u) == languageIdOf(u) \in languageIds /\ match(u, exclude, include)

\* the handler, run now on document u with text t, leaves u in the table
OpenedIsTracked(u, t) == ENABLED (onDidCreateDoc(u, t) /\ docsHas(docs', u))
CreatedIsTracked(u, t) == ENABLED (onDidCreate(u, t) /\ docsHas(docs', u))
WatcherChangeIsTracked(u, t) == ENABLED (onDidChange(u, t) /\ docsHas(docs', u))
TextChangeIsTracked(u, t) == ENABLED (onDidChangeTextDocument(u, t) /\ docsHas(docs', u))

\* C19: a document in scope and not yet in the table gets a table entry when
\* it is opened, created on disk, or changed (file-watcher change or editor
\* text change).
C19_EntersOnAnyEvent ==
  \A u \in Urls, t \in ConfTextIds :
    (InScope(u) /\ ~Tracked(u)) =>
       /\ OpenedIsTracked(u, t)
       /\ CreatedIsTracked(u, t)
       /\ WatcherChangeIsTracked(u, t)
       /\ TextChangeIsTracked(u, t)

\* the same for being opened and being created on disk only
C19_EntersOnOpenOrCreate ==
  \A u \in Urls, t \in ConfTextIds :
    (InScope(u) /\ ~Tracked(u)) => (OpenedIsTracked(u, t) /\ CreatedIsTracked(u, t))

\* an untracked document in scope is still untracked after either change event
C19_ChangeNeverAdds ==
  \A u \in Urls, t \in ConfTextIds :
    (InScope(u) /\ ~Tracked(u)) =>
       (~WatcherChangeIsTracked(u, t) /\ ~TextChangeIsTracked(u, t))

\* C20: with no handler in flight, every document in the table has a configured
\* language id and a path the include / exclude filter accepts.
C20_TableInScope ==
  (pending = EmptyBag /\ call = NoCall) =>
     \A u \in TrackedDocs :
        /\ InScope(u)
        /\ InScope(EntryOf(u).doc)

\* -------------------------------------------------------------------------
\* handlers and their awaits (Spec)
\* -------------------------------------------------------------------------
\* the table as its entries in order: the url and the object filed under it
TableView == [i \in 1..Len(docs) |-> [url |-> docs[i].url, cur |-> heap[docs[i].id]]]

\* C21: every handler runs to completion before another handler touches the
\* table: while a handler that has read the table is suspended before its own
\* write, no step changes the table.
C21_HandlersRunToCompletion ==
  [][(pending # EmptyBag /\ pending' # EmptyBag) => TableView' = TableView]_vars

\* C28: when a rename completes whose document was changed while the handler
\* was suspended, the entry filed under the new identity holds the tables of the
\* latest parse of that document (the entry the old identity has at that
\* moment), not the tables it had when the rename started.
C28_RenameKeepsLatestParse ==
  [][\A q \in BagToSet(pending) :
        (onDidRenameOpened(q) /\ docsHas(docs, q.uri)) =>
           SixTables(heap'[docsGet(docs', q.newUri)]) =
             SixTables(heap[docsGet(docs, q.uri)])
    ]_vars

\* -------------------------------------------------------------------------
\* navigation and completion over the table (Spec, SpecConf)
\* -------------------------------------------------------------------------
\* getLocations(value, resolver): for (const cur of docs.values()) the ranges
\* resolver(cur).get(value), each as new Location(cur.doc.uri, range); `all` is
\* docs.values(), the resolver is the table of (kind, role)
RECURSIVE getLocations(_, _, _, _)
getLocations(all, value, kind, role) ==
  IF all = <<>> THEN <<>>
  ELSE LET tab == tableOf(all[1], kind, role)
           ranges == IF mapHas(tab, value) THEN mapGet(tab, value) ELSE <<>>
       IN [i \in 1..Len(ranges) |-> [uri |-> all[1].doc, range |-> ranges[i]]]
          \o getLocations(Tail(all), value, kind, role)

\* the names looked up: one the texts use and one they do not
LookedUp == {v_stats, v_save}

\* the ranges stored under the name in the table of entry i, tagged with the
\* url entry i is filed under, for the entries from i on
RECURSIVE StoredFrom(_, _, _, _)
StoredFrom(i, value, kind, role) ==
  IF i > Len(docs) THEN <<>>
  ELSE LET tab == tableOf(heap[docs[i].id], kind, role)
           here == {k \in 1..Len(tab) : tab[k].key = value}
           ranges == IF here = {} THEN <<>> ELSE tab[CHOOSE k \in here : TRUE].ranges
       IN [j \in 1..Len(ranges) |-> [uri |-> docs[i].url, range |-> ranges[j]]]
          \o StoredFrom(i + 1, value, kind, role)

SomeEntryHas(value, kind, role) ==
  \E i \in 1..Len(docs) : mapHas(tableOf(heap[docs[i].id], kind, role), value)

\* what C22 says, in any state
LocationsAsStored ==
  \A value \in LookedUp, kind \in Kinds, role \in Roles :
    /\ getLocations(docsValues(docs, heap), value, kind, role) =
         StoredFrom(1, value, kind, role)
    /\ ~SomeEntryHas(value, kind, role) =>
         getLocations(docsValues(docs, heap), value, kind, role) = <<>>

\* C22: getLocations(name, accessor) returns one location per range stored under
\* name in the accessed table of every tracked document, documents in table
\* order, ranges in stored order, each tagged with the identity its document is
\* filed under; a name present in no document yields the empty list.
C22_LocationsAsStored == LocationsAsStored

\* -------------------------------------------------------------------------
\* completion: getExistingActionValue, addCompletions
\* -------------------------------------------------------------------------
\* variant: the value getter alone, for any name
getExistingActionValue_anyName(name, kind, all) == {[name |-> name]}

\* the value object of the name when a document of `all` defines it, else
\* undefined (here: no object); the value getters build an object for any name
getExistingActionValue(name, kind, all) ==
  IF \E i \in 1..Len(all) : mapHas(tableOf(all[i], kind, "definition"), name)
  THEN {[name |-> name]}
  ELSE {}

\* the loops of addCompletions: document i of docs.values(), key k of its
\* definition keys followed by its reference keys; `done` is the set of the
\* names already pushed
RECURSIVE addCompletionsLoop(_, _, _, _, _)
addCompletionsLoop(completions, all, i, k, kind) ==
  IF i > Len(all) THEN completions
  ELSE LET keys == mapKeys(tableOf(all[i], kind, "definition")) \o
                   mapKeys(tableOf(all[i], kind, "reference"))
       IN IF k > Len(keys) THEN addCompletionsLoop(completions, all, i + 1, 1, kind)
          ELSE LET action == keys[k]
                   done == {completions[j] : j \in 1..Len(completions)}
               IN IF action \in done
                     \/ getExistingActionValue(action, kind, all) = {}
                  THEN addCompletionsLoop(completions, all, i, k + 1, kind)
                  ELSE addCompletionsLoop(Append(completions, action), all, i, k + 1, kind)

\* the labels addCompletions pushes for a definition-role attribute of `kind`
addCompletions(kind) == addCompletionsLoop(<<>>, docsValues(docs, heap), 1, 1, kind)

DefinedNames(kind) ==
  UNION { {tableOf(heap[docs[i].id], kind, "definition")[k].key :
             k \in 1..Len(tableOf(heap[docs[i].id], kind, "definition"))} :
          i \in 1..Len(docs) }
ReferencedNames(kind) ==
  UNION { {tableOf(heap[docs[i].id], kind, "reference")[k].key :
             k \in 1..Len(tableOf(heap[docs[i].id], kind, "reference"))} :
          i \in 1..Len(docs) }

Excluded(path) == \E i \in 1..Len(exclude) : glob(path, exclude[i])
Included(path) == \E j \in 1..Len(include) : glob(path, include[j])

\* C24: match(path, exclude, include) is true exactly when the path matches no
\* exclude pattern, or matches some exclude pattern and also some include
\* pattern; an include pattern never puts out of scope a path that no exclude
\* pattern matches.
C24_ExcludeUnlessIncluded ==
  \A path \in Urls :
    /\ match(path, exclude, include) <=>
         (~Excluded(path) \/ (Excluded(path) /\ Included(path)))
    /\ ~Excluded(path) => match(path, exclude, include)

\* under exclude *.html with include *.txt: a.html is excluded and not included,
\* c.txt is matched by an include pattern and by no exclude pattern, and the
\* table configure built holds c.txt only
C24_Witness ==
  /\ exclude = <<"*.html">>
  /\ include = <<"*.txt">>
  /\ Excluded("a.html") /\ ~Included("a.html") /\ ~match("a.html", exclude, include)
  /\ ~Excluded("c.txt") /\ Included("c.txt") /\ match("c.txt", exclude, include)
  /\ docsHas(docs, "c.txt")
  /\ call = NoCall

\* -------------------------------------------------------------------------
\* unused and undefined exclude each other
\* -------------------------------------------------------------------------
\* the (kind, name) pairs some published diagnostic of the template is about
PublishedAbout(tpl) ==
  { <<published[p[1]].items[p[2]].message.kind, published[p[1]].items[p[2]].message.x>> :
      p \in PublishedOf(tpl) }

\* C25: in any resolver pass, for every kind K and name n, no tracked document
\* gets an unused diagnostic for (K, n) while some tracked document gets an
\* undefined diagnostic for (K, n).
C25_NeverUnusedAndUndefined ==
  [][PassRan => (PublishedAbout("UNUSED_TPL") \cap PublishedAbout("UNDECLARED_TPL"))' = {}]_vars

\* two documents render the result stats that nothing defines: the pass reports
\* it undefined in both and unused in none
C25_Witness ==
  /\ Len(docs) = 2
  /\ \A i \in 1..2 : heap[docs[i].id].text = 2
  /\ docs[1].id # docs[2].id
  /\ pending = EmptyBag
  /\ PublishedAbout("UNDECLARED_TPL") = { <<"result", v_stats>> }
  /\ PublishedAbout("UNUSED_TPL") = {}
  /\ Cardinality(PublishedOf("UNDECLARED_TPL")) = 2

\* -------------------------------------------------------------------------
\* the traversal of the element tree (SpecParse)
\* -------------------------------------------------------------------------
\* the attributes the parse processed at the node, in the order it did
VisitedAt(result, node) ==
  LET at == SelectSeq(result.visited, LAMBDA v : v.node = node.start)
  IN [k \in 1..Len(at) |-> at[k].attr]

\* the nodes that have a child
Parents(nodes) == {j \in 1..Len(nodes) : nodes[j].children # <<>>}

\* C26: for every finite element tree the traversal terminates and processes the
\* attributes of each element exactly once: no element is skipped and none is
\* visited twice, at any depth or width.
C26_EachElementOnce ==
  call.fn = "parseHTMLDocument" =>
     LET ns == FlatNodes(htmlRoots(Texts[call.arg]))
     IN /\ \A j \in 1..Len(ns) : VisitedAt(call.result, ns[j]) = parseNodeAttrs(ns[j])
        /\ \A k \in 1..Len(call.result.visited) :
             \E j \in 1..Len(ns) : ns[j].start = call.result.visited[k].node
        /\ \A i, j \in 1..Len(ns) : ns[i].start = ns[j].start => i = j

\* the text with a nested element and a sibling after its parent was parsed:
\* three attributes in all were processed, one of them in the nested element
C26_Witness ==
  /\ call.fn = "parseHTMLDocument"
  /\ Texts[call.arg] = TextTree
  /\ LET ns == FlatNodes(htmlRoots(TextTree))
     IN /\ Len(ns) = 3
        /\ Parents(ns) = {1}
        /\ Len(VisitedAt(call.result, ns[2])) = 1
        /\ Len(VisitedAt(call.result, ns[3])) = 2
  /\ Len(call.result.visited) = 3

\* -------------------------------------------------------------------------
\* configuration changes (SpecConf)
\* -------------------------------------------------------------------------
\* the settings k are installed, and no document the filters of k leave out is
\* in the table
Reconfigured(k) ==
  /\ actionUnusedSeverity = severityMap(k.unused)
  /\ actionUndefinedSeverity = severityMap(k.undefined)
  /\ languageIds = k.languageIds
  /\ exclude = k.exclude
  /\ include = k.include
  /\ \A i \in 1..Len(docs) :
       /\ languageIdOf(heap[docs[i].id].doc) \in k.languageIds
       /\ match(heap[docs[i].id].doc, k.exclude, k.include)

\* C27: a configuration change that affects the keml settings or the search
\* settings, one of them being enough, triggers a full reconfiguration: the
\* changed severities and filters are the ones in force after the handler.
C27_EitherSettingReconfigures ==
  \A affectsKeml, affectsSearch \in BOOLEAN, k \in Settings :
    (call = NoCall /\ (affectsKeml \/ affectsSearch)) =>
       ENABLED (onDidChangeConfiguration(affectsKeml, affectsSearch, k, <<>>) /\ Reconfigured(k)')

\* the same for a change that affects both
C27_BothSettingsReconfigure ==
  \A k \in Settings :
    call = NoCall => ENABLED (onDidChangeConfiguration(TRUE, TRUE, k, <<>>) /\ Reconfigured(k)')

\* -------------------------------------------------------------------------
\* the tokens of parseTokens (SpecTok)
\* -------------------------------------------------------------------------
\* non-empty, without space or bracket character, the slice of the input at its
\* characterDelta
CleanSlice(s, t) ==
  /\ t.token # <<>>
  /\ \A j \in 1..Len(t.token) : t.token[j] # " "
  /\ InvalidAt(t.token, 0) = {}
  /\ t.token = slice(s, t.characterDelta, t.characterDelta + Len(t.token))

CleanSlices(s, result) ==
  /\ \A i \in 1..Len(result) : CleanSlice(s, result[i])
  /\ \A i \in 1..(Len(result) - 1) :
       result[i].characterDelta + Len(result[i].token) <= result[i + 1].characterDelta

\* C29: for every input, every token parseTokens returns is non-empty, has no
\* space and none of the characters ()[]<>{}, equals input.slice(characterDelta,
\* characterDelta + token.length), and the tokens come with strictly increasing,
\* non-overlapping offsets.
C29_TokensAreCleanSlices ==
  call.fn = "parseTokens" => CleanSlices(call.arg, call.result)

\* the same for the calls made while INVALID_PATTERN.lastIndex is 0
C29_TokensAreCleanSlicesFromZero ==
  (call.fn = "parseTokens" /\ call.lastIndex = 0) => CleanSlices(call.arg, call.result)

\* -------------------------------------------------------------------------
\* notifications for a document the table holds (Spec)
\* -------------------------------------------------------------------------
\* the handler, run now on document u with text t, can change something
OpenedChanges(u, t) == ENABLED (onDidCreateDoc(u, t) /\ vars' # vars)
CreatedChanges(u, t) == ENABLED (onDidCreate(u, t) /\ vars' # vars)

\* C30: an open or create notification for a document already in the table
\* leaves its entry, the table order and the published diagnostics unchanged,
\* with no reparse and no resolver pass; of the create notifications for one
\* untracked document the first makes the entry, a later one never replaces it,
\* and the table holds one entry for the document.
C30_FirstNotificationWins ==
  \A u \in Urls :
    /\ Cardinality({i \in 1..Len(docs) : docs[i].url = u}) <= 1
    /\ Tracked(u) => \A t \in WsTextIds : ~OpenedChanges(u, t) /\ ~CreatedChanges(u, t)

\* a.html entered the table with the text of TextB; a create notification that
\* finds the text of TextKinds is handled and nothing changes
C30_Witness ==
  /\ Tracked("a.html")
  /\ EntryOf("a.html").text = 2
  /\ EntryOf("a.html").doc = "a.html"
  /\ published["a.html"].items # <<>>
  /\ ENABLED (onDidCreate("a.html", 7) /\ UNCHANGED vars)
  /\ ENABLED (onDidCreateDoc("a.html", 7) /\ UNCHANGED vars)

====
